---- MODULE Spec2Model ----
(***************************************************************************)
(* Model of the per-question C similarity engine                           *)
(* (script_codigos_c/c_similarity_fine_final.py).                          *)
(*                                                                         *)
(* Python floats are modelled as exact rationals <<num, den>> in lowest    *)
(* terms with den > 0.  A shingle (" ".join of k token texts) is modelled  *)
(* as the tuple of those k texts: tokens never contain a space, so the     *)
(* join is injective.  A token is a record [cls, txt]: cls is the          *)
(* alternative of TOKEN_RE that produced it, txt its text.                 *)
(***************************************************************************)
EXTENDS Integers, Sequences, FiniteSets, TLC

VARIABLES
    \* ---- similarity kernel, applied to drawn inputs (SpecKernel)
    kin,        \* the drawn input of a kernel function
    kout,       \* the value the function returned (None before)
    kop,        \* which function has been applied ("none" before)
    \* ---- main(): grouping, pairwise pass, best match, rows (Spec)
    paths,      \* list returned by gather_files (sorted)
    feats,      \* path -> Features, as returned by build_features
    args,       \* parsed command line: weights, th, policy
    pc,         \* position of main()
    groups,     \* qnum -> list of paths (retained groups only)
    qnum,       \* question being processed by the loop of line 366
    pairs,      \* pairs of the current question: <<a, b, score, br>>
    best,       \* path -> <<mate, score, br>> for the current question
    rows_by_q,  \* qnum -> list of rows
    mean_sd_by_q, \* qnum -> baseline
    \* ---- build_features with the persistent cache (SpecCache)
    fs,         \* path -> [content, mtime_ns, size]
    disk,       \* content of CACHE_FILE, see CacheFiles
    bcfg,       \* configuration of the running build_features
    bpc,        \* position of build_features
    cache,      \* the object load_cache returned, as mutated by the run
    out,        \* the dict build_features returns
    todo,       \* list of extraction tasks <<path, k, do_norm, min_tokens>>
    results,    \* task index -> result of _extract_one, once the worker ran
    hits,       \* paths whose Features were taken from the cache in this run
    runs        \* runs of the program started so far

kvars == <<kin, kout, kop>>
mvars == <<paths, feats, args, pc, groups, qnum, pairs, best, rows_by_q, mean_sd_by_q>>
cvars == <<fs, disk, bcfg, bpc, cache, out, todo, results, hits, runs>>
vars == <<kin, kout, kop, paths, feats, args, pc, groups, qnum, pairs, best,
          rows_by_q, mean_sd_by_q, fs, disk, bcfg, bpc, cache, out, todo, results, hits,
          runs>>

\* Python's None, where the other values are tuples, records or paths
None == <<>>

(***************************************************************************)
(* Rational arithmetic standing for Python's float arithmetic.             *)
(***************************************************************************)
RECURSIVE GCD(_, _)
GCD(a, b) == IF b = 0 THEN a ELSE GCD(b, a % b)

Abs(n) == IF n < 0 THEN -n ELSE n

Frac(n, d) == LET g == GCD(Abs(n), d) IN <<n \div g, d \div g>>

Zero == <<0, 1>>
One == <<1, 1>>
MinusOne == <<-1, 1>>

FAdd(f, g) ==
    LET l == (f[2] \div GCD(f[2], g[2])) * g[2]
    IN Frac(f[1] * (l \div f[2]) + g[1] * (l \div g[2]), l)
FMul(f, g) == Frac(f[1] * g[1], f[2] * g[2])
FGe(f, g) == f[1] * g[2] >= g[1] * f[2]
FGt(f, g) == f[1] * g[2] > g[1] * f[2]

Max(a, b) == IF a >= b THEN a ELSE b
Min(a, b) == IF a <= b THEN a ELSE b

(***************************************************************************)
(* jaccard (lines 53-56)                                                   *)
(***************************************************************************)
jaccard_no_empty_case(a, b) ==
    LET u == Cardinality(a \cup b)
    IN IF u # 0 THEN Frac(Cardinality(a \cap b), u) ELSE Zero

jaccard(a, b) ==
    IF a = {} /\ b = {} THEN One
    ELSE LET u == Cardinality(a \cup b)
         IN IF u # 0 THEN Frac(Cardinality(a \cap b), u) ELSE Zero

(***************************************************************************)
(* levenshtein (lines 58-70): the single-row dynamic program.  dp is a     *)
(* function on 0..m.                                                       *)
(***************************************************************************)
RECURSIVE LevInner(_, _, _, _, _, _)
LevInner(a, b, i, j, prev, dp) ==
    IF j > Len(b) THEN dp
    ELSE LET ins == dp[j - 1] + 1
             dele == dp[j] + 1
             sub == prev + (IF a[i] = b[j] THEN 0 ELSE 1)
         IN LevInner(a, b, i, j + 1, dp[j],
                     [dp EXCEPT ![j] = Min(ins, Min(dele, sub))])

RECURSIVE LevOuter_keeps_first_column(_, _, _, _)
LevOuter_keeps_first_column(a, b, i, dp) ==
    IF i > Len(a) THEN dp
    ELSE LevOuter_keeps_first_column(a, b, i + 1, LevInner(a, b, i, 1, dp[0], dp))

RECURSIVE LevOuter(_, _, _, _)
LevOuter(a, b, i, dp) ==
    IF i > Len(a) THEN dp
    ELSE LevOuter(a, b, i + 1, LevInner(a, b, i, 1, dp[0], [dp EXCEPT ![0] = i]))

levenshtein(a, b) ==
    LET n == Len(a)
        m == Len(b)
    IN IF n = 0 THEN m
       ELSE IF m = 0 THEN n
       ELSE LevOuter(a, b, 1, [j \in 0..m |-> j])[m]

(***************************************************************************)
(* sim_edit (lines 72-75)                                                  *)
(***************************************************************************)
sim_edit_over_first_length(a, b) ==
    IF a = <<>> /\ b = <<>> THEN One
    ELSE LET d == levenshtein(a, b)
             mx == Max(Len(a), 1)
         IN Frac(mx - d, mx)

sim_edit(a, b) ==
    IF a = <<>> /\ b = <<>> THEN One
    ELSE LET d == levenshtein(a, b)
             mx == Max(Max(Len(a), Len(b)), 1)
         IN Frac(mx - d, mx)

(***************************************************************************)
(* Tokens.  Id, Num, Op and Pn build the tokens TOKEN_RE (lines 14-17)     *)
(* yields: an identifier (group 1), a number (groups 2-3), a multi-char    *)
(* operator (group 4), a punctuation character (group 5).                  *)
(***************************************************************************)
Id(s) == [cls |-> "id", txt |-> s]
Num(s) == [cls |-> "num", txt |-> s]
Op(s) == [cls |-> "op", txt |-> s]
Pn(s) == [cls |-> "punct", txt |-> s]

C_KEYWORDS ==
    {"auto", "break", "case", "char", "const", "continue", "default", "do",
     "double", "else", "enum", "extern", "float", "for", "goto", "if", "inline",
     "int", "long", "register", "restrict", "return", "short", "signed",
     "sizeof", "static", "struct", "switch", "typedef", "union", "unsigned",
     "void", "volatile", "while", "_Bool", "_Complex", "_Imaginary"}

\* re.fullmatch(r"[A-Za-z_][A-Za-z_0-9]*", t) and t not in C_KEYWORDS
\* (lines 42, 78, 83): a token matches the identifier pattern exactly when
\* the first alternative of TOKEN_RE produced it.
IsPlainIdentifier(t) == t.cls = "id" /\ t.txt \notin C_KEYWORDS

Range(s) == {s[i] : i \in DOMAIN s}

\* f"ID{nxt}" (line 43) for the first identifiers of a file.
AliasNames == <<"ID1", "ID2", "ID3", "ID4", "ID5", "ID6">>

(***************************************************************************)
(* normalize_identifiers (lines 39-47): id_map is a function from the      *)
(* identifier texts seen so far to their aliases.                          *)
(***************************************************************************)
RECURSIVE NormLoop(_, _, _, _, _)
NormLoop(tokens, i, id_map, nxt, acc) ==
    IF i > Len(tokens) THEN acc
    ELSE LET t == tokens[i]
         IN IF IsPlainIdentifier(t)
            THEN IF t.txt \in DOMAIN id_map
                 THEN NormLoop(tokens, i + 1, id_map, nxt, Append(acc, id_map[t.txt]))
                 ELSE NormLoop(tokens, i + 1,
                               [x \in DOMAIN id_map \cup {t.txt} |->
                                   IF x = t.txt THEN AliasNames[nxt] ELSE id_map[x]],
                               nxt + 1, Append(acc, AliasNames[nxt]))
            ELSE NormLoop(tokens, i + 1, id_map, nxt, Append(acc, t.txt))

normalize_identifiers_keeps_names(tokens) == [i \in DOMAIN tokens |-> tokens[i].txt]

normalize_identifiers(tokens) == NormLoop(tokens, 1, <<>>, 1, <<>>)

\* tok_raw as the list of token texts (a token of the Python list is its text)
Texts(tokens) == [i \in DOMAIN tokens |-> tokens[i].txt]

(***************************************************************************)
(* shingles (lines 49-51)                                                  *)
(***************************************************************************)
shingles(tokens, k) ==
    IF Len(tokens) < k THEN {}
    ELSE {SubSeq(tokens, i, i + k - 1) : i \in 1..(Len(tokens) - k + 1)}

\* Counter(tok_norm) (line 200)
Counter(tokens) ==
    {<<t, Cardinality({i \in DOMAIN tokens : tokens[i] = t})>> : t \in Range(tokens)}

(***************************************************************************)
(* extract_identifiers (77-78), extract_function_calls (80-85)             *)
(***************************************************************************)
extract_identifiers(tokens) ==
    {tokens[i].txt : i \in {j \in DOMAIN tokens : IsPlainIdentifier(tokens[j])}}

extract_function_calls(tokens) ==
    {tokens[i].txt : i \in {j \in 1..(Len(tokens) - 1) :
                               IsPlainIdentifier(tokens[j]) /\ tokens[j + 1].txt = "("}}

(***************************************************************************)
(* control_stream (lines 87-99).  LowerTok is t.lower() on token texts:    *)
(* the texts with an upper-case letter that the model's files contain.     *)
(***************************************************************************)
LowerTok(s) ==
    CASE s = "IF" -> "if"
      [] s = "For" -> "for"
      [] s = "While" -> "while"
      [] s = "X" -> "x"
      [] OTHER -> s

map_ctrl ==
    [tt \in {"if", "else", "for", "while", "do", "switch", "case", "default",
             "return", "break", "continue"} |->
        CASE tt = "if" -> "IF" [] tt = "else" -> "ELSE" [] tt = "for" -> "FOR"
          [] tt = "while" -> "WHILE" [] tt = "do" -> "DO" [] tt = "switch" -> "SWITCH"
          [] tt = "case" -> "CASE" [] tt = "default" -> "DEFAULT"
          [] tt = "return" -> "RETURN" [] tt = "break" -> "BREAK"
          [] tt = "continue" -> "CONTINUE"]

RECURSIVE CtrlEmit(_, _, _)
CtrlEmit(tokens, i, stream) ==
    IF i > Len(tokens) THEN stream
    ELSE LET t == tokens[i].txt
             tt == LowerTok(t)
         IN IF tt \in DOMAIN map_ctrl THEN CtrlEmit(tokens, i + 1, Append(stream, map_ctrl[tt]))
            ELSE IF t = "{" THEN CtrlEmit(tokens, i + 1, Append(stream, "BRACE{"))
            ELSE IF t = "}" THEN CtrlEmit(tokens, i + 1, Append(stream, "BRACE}"))
            ELSE IF t = ";" THEN CtrlEmit(tokens, i + 1, Append(stream, "SEMI"))
            ELSE CtrlEmit(tokens, i + 1, stream)

RECURSIVE CtrlCompress_keeps_repeats(_, _, _)
CtrlCompress_keeps_repeats(stream, i, comp) == stream

RECURSIVE CtrlCompress(_, _, _)
CtrlCompress(stream, i, comp) ==
    IF i > Len(stream) THEN comp
    ELSE IF comp = <<>> \/ comp[Len(comp)] # stream[i]
         THEN CtrlCompress(stream, i + 1, Append(comp, stream[i]))
         ELSE CtrlCompress(stream, i + 1, comp)

control_stream(tokens) == CtrlCompress(CtrlEmit(tokens, 1, <<>>), 1, <<>>)

(***************************************************************************)
(* The source texts the model's files may hold.  For each text: its length *)
(* in bytes (st_size), the raw tokens tokenize(strip_comments_and_strings) *)
(* yields for it (lines 190-191) and its loop signatures (line 204).       *)
(*   T1  x=f(1);while(x<9)x++;                                             *)
(*   T2  y=g(1);while(y<9)y++;      T1 with x, f renamed to y, g           *)
(*   T3  if(a){b();}return;                                                *)
(*   T4  x=1;                                                              *)
(*   T5  x=f(2);while(x<9)x++;      T1 with another literal                *)
(*   T6  x=1;y=x;z=y+x;             no call, no loop                       *)
(***************************************************************************)
Contents == {"T1", "T2", "T3", "T4", "T5", "T6"}

WhileText(v, f, n) ==
    <<Id(v), Pn("="), Id(f), Pn("("), Num(n), Pn(")"), Pn(";"), Id("while"), Pn("("),
      Id(v), Pn("<"), Num("9"), Pn(")"), Id(v), Op("++"), Pn(";")>>

SrcTokens(c) ==
    CASE c = "T1" -> WhileText("x", "f", "1")
      [] c = "T2" -> WhileText("y", "g", "1")
      [] c = "T3" -> <<Id("if"), Pn("("), Id("a"), Pn(")"), Pn("{"), Id("b"), Pn("("),
                       Pn(")"), Pn(";"), Pn("}"), Id("return"), Pn(";")>>
      [] c = "T4" -> <<Id("x"), Pn("="), Num("1"), Pn(";")>>
      [] c = "T5" -> WhileText("x", "f", "2")
      [] c = "T6" -> <<Id("x"), Pn("="), Num("1"), Pn(";"), Id("y"), Pn("="), Id("x"),
                       Pn(";"), Id("z"), Pn("="), Id("y"), Op("+"), Id("x"), Pn(";")>>

SrcLoopSigs(c) == IF c \in {"T1", "T2", "T5"} THEN {"WHILE[CMP_NUM]"} ELSE {}

SrcSize(c) == CASE c = "T3" -> 18 [] c = "T4" -> 4 [] OTHER -> 21

(***************************************************************************)
(* Features: the dict _extract_one returns (lines 186-208), a record with  *)
(* the same keys.  hash is the text itself (sha1 taken as injective), tf   *)
(* the Counter as a set of <<token, count>>.                               *)
(***************************************************************************)
TooShortFeat == [too_short |-> TRUE]

ErrorFeat(msg) == [error |-> msg]

\* _extract_one on a file whose read raises no exception
extract_text(c, k, do_norm, min_tokens) ==
    LET tok_raw == SrcTokens(c)
        tok_norm == IF do_norm THEN normalize_identifiers(tok_raw) ELSE Texts(tok_raw)
    IN IF Len(tok_raw) < min_tokens THEN TooShortFeat
       ELSE [too_short |-> FALSE, hash |-> c, tok_norm |-> tok_norm,
             shingles |-> shingles(tok_norm, k), tf |-> Counter(tok_norm),
             idents |-> extract_identifiers(tok_raw),
             calls |-> extract_function_calls(tok_raw),
             control |-> control_stream(tok_raw), loopsigs |-> SrcLoopSigs(c)]

\* fa.get("error"), fa.get("too_short") as conditions (line 371): a missing
\* key, an empty message and False are falsy.
HasError(fa) == "error" \in DOMAIN fa /\ fa.error # ""
IsTooShort(fa) == "too_short" \in DOMAIN fa /\ fa.too_short

(***************************************************************************)
(* compare_pair (lines 244-253)                                            *)
(***************************************************************************)
compare_pair_renormalized(fa, fb, weights) ==
    LET j == jaccard(fa.shingles, fb.shingles)
        ctrl == sim_edit(fa.control, fb.control)
        idj == jaccard(fa.idents, fb.idents)
        loops == jaccard(fa.loopsigs, fb.loopsigs)
        calls == jaccard(fa.calls, fb.calls)
        total == FAdd(weights.jaccard, FAdd(weights.control, FAdd(weights.idents,
                      FAdd(weights.loops, weights.calls))))
        raw == FAdd(FMul(weights.jaccard, j), FAdd(FMul(weights.control, ctrl),
                   FAdd(FMul(weights.idents, idj), FAdd(FMul(weights.loops, loops),
                        FMul(weights.calls, calls)))))
    IN <<IF total = Zero THEN raw ELSE Frac(raw[1] * total[2], raw[2] * total[1]),
         [jaccard |-> j, control |-> ctrl, idents |-> idj, loops |-> loops, calls |-> calls]>>

compare_pair(fa, fb, weights) ==
    LET j == jaccard(fa.shingles, fb.shingles)
        ctrl == sim_edit(fa.control, fb.control)
        idj == jaccard(fa.idents, fb.idents)
        loops == jaccard(fa.loopsigs, fb.loopsigs)
        calls == jaccard(fa.calls, fb.calls)
        score == FAdd(FMul(weights.jaccard, j), FAdd(FMul(weights.control, ctrl),
                     FAdd(FMul(weights.idents, idj), FAdd(FMul(weights.loops, loops),
                          FMul(weights.calls, calls)))))
    IN <<score,
         [jaccard |-> j, control |-> ctrl, idents |-> idj, loops |-> loops, calls |-> calls]>>

(***************************************************************************)
(* baseline_stats (lines 255-258).  statistics.pstdev is the square root   *)
(* of the population variance; the model keeps the variance and writes     *)
(* the deviation as [sqrt_of |-> variance].  The return statement parses   *)
(* as  return (mean, (sd if sd > 0 else (mean, 0.0))).                     *)
(***************************************************************************)
RECURSIVE FSum(_, _)
FSum(values, i) == IF i > Len(values) THEN Zero ELSE FAdd(values[i], FSum(values, i + 1))

fmean(values) == FMul(FSum(values, 1), <<1, Len(values)>>)

pvariance(values) ==
    LET mu == fmean(values)
        sq == [i \in DOMAIN values |->
                  LET dv == FAdd(values[i], FMul(MinusOne, mu)) IN FMul(dv, dv)]
    IN FMul(FSum(sq, 1), <<1, Len(values)>>)

baseline_stats(values) ==
    IF Len(values) < 2 THEN <<None, None>>
    ELSE LET mean == fmean(values)
             var == pvariance(values)
         IN <<mean, IF FGt(var, Zero) THEN [sqrt_of |-> var] ELSE [tuple |-> <<mean, Zero>>]>>

\* The Python type of a value: None is <<>>, a float is a rational <<n, d>>
\* or a square root [sqrt_of |-> r], a tuple met where a float is expected is
\* [tuple |-> its items]
IsNone(v) == DOMAIN v = {}
IsFloat(v) == DOMAIN v = 1..2 \/ DOMAIN v = {"sqrt_of"}
IsTuple(v) == DOMAIN v = {"tuple"}

(***************************************************************************)
(* cosine over Counters, as each script defines it.  A Counter is the set  *)
(* of its <<key, count>> items; a missing key counts 0.  A quotient        *)
(* dot/(na*nb) is kept as [quotient |-> <<dot, norms_sq>>]: dot over the   *)
(* square root of norms_sq.                                                *)
(***************************************************************************)
Keys(c) == {e[1] : e \in c}

CountOf(c, k) == IF k \in Keys(c) THEN (CHOOSE e \in c : e[1] = k)[2] ELSE 0

RECURSIVE SumOver(_, _)
SumOver(S, f) ==
    IF S = {} THEN 0
    ELSE LET x == CHOOSE y \in S : TRUE IN f[x] + SumOver(S \ {x}, f)

\* lines 158-162 of c_similarity_fine_final.py, 57-61 of c_similarity_final.py,
\* 70-74 of c_similarity.py: the same text in the three scripts
CosineQuotient(ca, cb) ==
    LET keys == Keys(ca) \cup Keys(cb)
        dot == SumOver(keys, [k \in keys |-> CountOf(ca, k) * CountOf(cb, k)])
        na2 == SumOver(Keys(ca), [k \in Keys(ca) |-> CountOf(ca, k) * CountOf(ca, k)])
        nb2 == SumOver(Keys(cb), [k \in Keys(cb) |-> CountOf(cb, k) * CountOf(cb, k)])
    IN IF na2 # 0 /\ nb2 # 0 THEN [quotient |-> <<dot, na2 * nb2>>] ELSE Zero

\* cosine of c_similarity_fine_final.py (lines 157-162)
cosine(ca, cb) == CosineQuotient(ca, cb)

\* cosine of c_similarity_final.py (lines 55-61)
final_cosine(ca, cb) == IF ca = {} /\ cb = {} THEN One ELSE CosineQuotient(ca, cb)

\* cosine_counter of c_similarity.py (lines 67-74)
cosine_counter(ca, cb) == IF ca = {} /\ cb = {} THEN One ELSE CosineQuotient(ca, cb)

(***************************************************************************)
(* status_from_policy (lines 260-268).  0.85 is 17/20.                     *)
(***************************************************************************)
status_strict_compare(score, br, th, policy) ==
    IF policy = "weighted"
    THEN IF FGt(score, th) THEN "SUSPEITO"
         ELSE IF FGe(score, FMul(th, <<17, 20>>)) THEN "REVISAR" ELSE "OK"
    ELSE LET flags == {FGe(br.jaccard, th), FGe(br.control, th), FGe(br.idents, th),
                       FGe(br.loops, th), FGe(br.calls, th)}
             sus == IF policy = "any" THEN TRUE \in flags ELSE FALSE \notin flags
         IN IF sus THEN "SUSPEITO" ELSE "OK"

status_from_policy(score, br, th, policy) ==
    IF policy = "weighted"
    THEN IF FGe(score, th) THEN "SUSPEITO"
         ELSE IF FGe(score, FMul(th, <<17, 20>>)) THEN "REVISAR" ELSE "OK"
    ELSE LET flags == {FGe(br.jaccard, th), FGe(br.control, th), FGe(br.idents, th),
                       FGe(br.loops, th), FGe(br.calls, th)}
             sus == IF policy = "any" THEN TRUE \in flags ELSE FALSE \notin flags
         IN IF sus THEN "SUSPEITO" ELSE "OK"

(***************************************************************************)
(* Strings that the program takes apart (paths, author tags) are           *)
(* sequences of one-character strings.  AsciiOrder lists the characters    *)
(* in code-point order.                                                    *)
(***************************************************************************)
AsciiOrder ==
    <<" ", "-", ".", "/", "0", "1", "2", "3", "4", "5", "6", "7", "8", "9",
      "A", "B", "C", "D", "E", "F", "G", "H", "I", "J", "K", "L", "M", "N", "O",
      "P", "Q", "R", "S", "T", "U", "V", "W", "X", "Y", "Z", "_",
      "a", "b", "c", "d", "e", "f", "g", "h", "i", "j", "k", "l", "m", "n", "o",
      "p", "q", "r", "s", "t", "u", "v", "w", "x", "y", "z">>

\* ord() of a character, as its rank in AsciiOrder
CodeOf == [ch \in {AsciiOrder[i] : i \in DOMAIN AsciiOrder} |->
              CHOOSE i \in DOMAIN AsciiOrder : AsciiOrder[i] = ch]

Code(ch) == CodeOf[ch]

Digits == {"0", "1", "2", "3", "4", "5", "6", "7", "8", "9"}
UpperCase == {AsciiOrder[i] : i \in Code("A")..Code("Z")}
LowerCase == {AsciiOrder[i] : i \in Code("a")..Code("z")}

\* str.lower() on one character, on a string
LowerCh(ch) == IF ch \in UpperCase THEN AsciiOrder[Code(ch) - Code("A") + Code("a")] ELSE ch
Lower(str) == [i \in DOMAIN str |-> LowerCh(str[i])]

\* Python's < on strings: lexicographic by code point
RECURSIVE StrLess(_, _, _)
StrLess(x, y, i) ==
    IF i > Len(y) THEN FALSE
    ELSE IF i > Len(x) THEN TRUE
    ELSE IF x[i] # y[i] THEN Code(x[i]) < Code(y[i])
    ELSE StrLess(x, y, i + 1)

StrLt(x, y) == StrLess(x, y, 1)

\* os.path.basename (line 26)
RECURSIVE LastSlash(_, _)
LastSlash(path, i) == IF i = 0 \/ path[i] = "/" THEN i ELSE LastSlash(path, i - 1)

Basename(path) == SubSeq(path, LastSlash(path, Len(path)) + 1, Len(path))

\* int(m.group(1)) (line 28)
RECURSIVE DecimalValue(_, _, _)
DecimalValue(str, i, acc) ==
    IF i > Len(str) THEN acc
    ELSE DecimalValue(str, i + 1, acc * 10 + (Code(str[i]) - Code("0")))

(***************************************************************************)
(* strip_comments_and_strings (lines 30-34) and tokenize (lines 36-37) on  *)
(* a source text, a sequence of one-character strings.  re.sub replaces    *)
(* the non-overlapping matches found from left to right; after a match the *)
(* scan goes on behind it, without a match one character further.          *)
(***************************************************************************)
strip_comments_and_strings(text) ==
    LET Spaces(n) == [i \in 1..n |-> " "]
        \* the end of a match of "([^"\\]|\\.)*" (or of the same with ') whose
        \* body starts at j, 0 if there is none: a backslash takes the next
        \* character with it (re.DOTALL: whatever it is), any other character
        \* but the quote stands for itself
        RECURSIVE ScanQuoted(_, _, _)
        ScanQuoted(code, j, q) ==
            IF j > Len(code) THEN 0
            ELSE IF code[j] = q THEN j
            ELSE IF code[j] = "\\"
                 THEN IF j + 1 > Len(code) THEN 0 ELSE ScanQuoted(code, j + 2, q)
                 ELSE ScanQuoted(code, j + 1, q)
        \* line 31: string and character literals become spaces of equal length
        RECURSIVE SubQuoted(_, _, _)
        SubQuoted(code, i, acc) ==
            IF i > Len(code) THEN acc
            ELSE LET e == IF code[i] \in {"\"", "'"}
                          THEN ScanQuoted(code, i + 1, code[i]) ELSE 0
                 IN IF e # 0
                    THEN SubQuoted(code, e + 1, acc \o Spaces(e - i + 1))
                    ELSE SubQuoted(code, i + 1, Append(acc, code[i]))
        \* the end of the first "*/" at or behind j, 0 if there is none
        RECURSIVE FindClose(_, _)
        FindClose(code, j) ==
            IF j + 1 > Len(code) THEN 0
            ELSE IF code[j] = "*" /\ code[j + 1] = "/" THEN j + 1
            ELSE FindClose(code, j + 1)
        \* line 32: block comments become spaces of equal length
        RECURSIVE SubBlock(_, _, _)
        SubBlock(code, i, acc) ==
            IF i > Len(code) THEN acc
            ELSE LET e == IF i + 1 <= Len(code) /\ code[i] = "/" /\ code[i + 1] = "*"
                          THEN FindClose(code, i + 2) ELSE 0
                 IN IF e # 0
                    THEN SubBlock(code, e + 1, acc \o Spaces(e - i + 1))
                    ELSE SubBlock(code, i + 1, Append(acc, code[i]))
        \* the first position at or behind j that holds a newline, Len(code) + 1
        \* if there is none
        RECURSIVE LineEnd(_, _)
        LineEnd(code, j) ==
            IF j > Len(code) \/ code[j] = "\n" THEN j ELSE LineEnd(code, j + 1)
        \* line 33: line comments are replaced by the empty string
        RECURSIVE SubLine(_, _, _)
        SubLine(code, i, acc) ==
            IF i > Len(code) THEN acc
            ELSE IF i + 1 <= Len(code) /\ code[i] = "/" /\ code[i + 1] = "/"
                 THEN SubLine(code, LineEnd(code, i + 2), acc)
                 ELSE SubLine(code, i + 1, Append(acc, code[i]))
    IN SubLine(SubBlock(SubQuoted(text, 1, <<>>), 1, <<>>), 1, <<>>)

\* tokenize: the matches of TOKEN_RE (lines 14-17) from left to right, each
\* token the sequence of its characters
tokenize(text) ==
    LET IdentStart == UpperCase \cup LowerCase \cup {"_"}
        IdentChars == IdentStart \cup Digits
        HexDigits == Digits \cup {"a", "b", "c", "d", "e", "f", "A", "B", "C", "D", "E", "F"}
        TwoCharOperators ==
            {<<"=", "=">>, <<"!", "=">>, <<"<", "=">>, <<">", "=">>, <<"-", ">">>,
             <<"+", "+">>, <<"-", "-">>, <<"&", "&">>, <<"|", "|">>, <<"<", "<">>,
             <<">", ">">>, <<":", ":">>}
        Punctuation ==
            {"{", "}", "(", ")", "[", "]", ";", ",", ".", ":", "?", "~", "!", "%",
             "^", "&", "*", "+", "-", "/", "|", "<", ">", "="}
        \* the last position of the run of characters of S that holds i - 1
        RECURSIVE RunEnd(_, _, _)
        RunEnd(code, i, S) ==
            IF i <= Len(code) /\ code[i] \in S THEN RunEnd(code, i + 1, S) ELSE i - 1
        \* the end of the token matched at i, 0 if none is; the alternatives
        \* are tried in the order of the pattern
        TokenEnd(code, i) ==
            LET n == Len(code)
                c == code[i]
                c1 == IF i + 1 <= n THEN code[i + 1] ELSE ""
                c2 == IF i + 2 <= n THEN code[i + 2] ELSE ""
            IN IF c \in IdentStart THEN RunEnd(code, i + 1, IdentChars)
               ELSE IF c = "0" /\ c1 = "x" /\ c2 \in HexDigits
                    THEN RunEnd(code, i + 3, HexDigits)
               ELSE IF c \in Digits
                    THEN LET d == RunEnd(code, i + 1, Digits)
                         IN IF d + 1 <= n /\ code[d + 1] = "."
                            THEN RunEnd(code, d + 2, Digits) ELSE d
               ELSE IF c = "." /\ c1 \in Digits THEN RunEnd(code, i + 2, Digits)
               ELSE IF i + 1 <= n /\ <<c, c1>> \in TwoCharOperators THEN i + 1
               ELSE IF c \in Punctuation THEN i
               ELSE 0
        RECURSIVE TokenLoop(_, _, _)
        TokenLoop(code, i, acc) ==
            IF i > Len(code) THEN acc
            ELSE LET e == TokenEnd(code, i)
                 IN IF e = 0 THEN TokenLoop(code, i + 1, acc)
                    ELSE TokenLoop(code, e + 1, Append(acc, SubSeq(code, i, e)))
    IN TokenLoop(text, 1, <<>>)

(***************************************************************************)
(* Loop signatures (lines 101-155) on the masked text, a sequence of        *)
(* one-character strings.  Positions count from 1 here and from 0 in the    *)
(* code; "no position" is 0 here and -1 in the code.  A signature is the    *)
(* tuple of the parts the code joins into FOR[init;cond;incr] or            *)
(* WHILE[cond].                                                             *)
(***************************************************************************)
\* "pat in s" for strings
Contains_at_start_only(s, pat) ==
    Len(pat) <= Len(s) /\ SubSeq(s, 1, Len(pat)) = pat

Contains(s, pat) ==
    \E i \in 1..(Len(s) - Len(pat) + 1) : SubSeq(s, i, i + Len(pat) - 1) = pat

\* lines 121 and 134: whitespace removed, then every identifier replaced by
\* ID, then every number by NUM
CondShape(cond) ==
    LET IdentStart == UpperCase \cup LowerCase \cup {"_"}
        RECURSIVE RunEnd(_, _, _)
        RunEnd(t, i, S) == IF i <= Len(t) /\ t[i] \in S THEN RunEnd(t, i + 1, S) ELSE i - 1
        RECURSIVE SubIdents(_, _, _)
        SubIdents(t, i, acc) ==
            IF i > Len(t) THEN acc
            ELSE IF t[i] \in IdentStart
                 THEN SubIdents(t, RunEnd(t, i + 1, IdentStart \cup Digits) + 1,
                                acc \o <<"I", "D">>)
                 ELSE SubIdents(t, i + 1, Append(acc, t[i]))
        RECURSIVE SubNumbers(_, _, _)
        SubNumbers(t, i, acc) ==
            IF i > Len(t) THEN acc
            ELSE IF t[i] \in Digits
                 THEN LET d == RunEnd(t, i + 1, Digits)
                          e == IF d + 2 <= Len(t) /\ t[d + 1] = "." /\ t[d + 2] \in Digits
                               THEN RunEnd(t, d + 3, Digits) ELSE d
                      IN SubNumbers(t, e + 1, acc \o <<"N", "U", "M">>)
                 ELSE SubNumbers(t, i + 1, Append(acc, t[i]))
        bare == SelectSeq(cond, LAMBDA c : c \notin {" ", "\n", "\t"})
    IN SubNumbers(SubIdents(bare, 1, <<>>), 1, <<>>)

\* find_matching_paren (lines 101-109)
find_matching_paren(s, start_idx) ==
    LET RECURSIVE Scan(_, _)
        Scan(i, depth) ==
            IF i > Len(s) THEN 0
            ELSE IF s[i] = "(" THEN Scan(i + 1, depth + 1)
            ELSE IF s[i] = ")"
                 THEN IF depth - 1 = 0 THEN i ELSE Scan(i + 1, depth - 1)
            ELSE Scan(i + 1, depth)
    IN Scan(start_idx, 0)

\* normalize_for_header (lines 111-132).  split(';') cuts at every ';'; the
\* strip() of line 112 removes nothing that the re.sub(r"\s+", "") of the
\* three inner functions does not remove
normalize_for_header(header) ==
    LET RECURSIVE Split(_, _, _)
        Split(i, cur, acc) ==
            IF i > Len(header) THEN Append(acc, cur)
            ELSE IF header[i] = ";" THEN Split(i + 1, <<>>, Append(acc, cur))
            ELSE Split(i + 1, Append(cur, header[i]), acc)
        split == Split(1, <<>>, <<>>)
        parts == split \o [i \in 1..(3 - Len(split)) |-> <<>>]
        Bare(t) == SelectSeq(t, LAMBDA c : c \notin {" ", "\n", "\t"})
        norm_init(t) ==
            IF Bare(t) = <<>> THEN "NONE"
            ELSE IF Contains(Bare(t), <<"=">>) THEN "ASSIGN_OR_DECL"
            ELSE "OTHER"
        norm_cond(t) ==
            LET sh == CondShape(t)
            IN IF Contains(sh, <<"I", "D", "<", "N", "U", "M">>)
                  \/ Contains(sh, <<"I", "D", "<", "=", "N", "U", "M">>) THEN "ID<NUM"
               ELSE IF Contains(sh, <<"I", "D", ">", "N", "U", "M">>)
                  \/ Contains(sh, <<"I", "D", ">", "=", "N", "U", "M">>) THEN "ID>NUM"
               ELSE IF Contains(sh, <<"I", "D", "=", "=", "I", "D">>)
                  \/ Contains(sh, <<"I", "D", "=", "=", "N", "U", "M">>) THEN "EQ"
               ELSE "COND"
        norm_incr(t) ==
            IF Bare(t) = <<>> THEN "NONE"
            ELSE IF Contains(Bare(t), <<"+", "+">>) \/ Contains(Bare(t), <<"-", "-">>)
                 THEN "INCDEC"
            ELSE IF \/ Contains(Bare(t), <<"+", "=">>) \/ Contains(Bare(t), <<"-", "=">>)
                    \/ Contains(Bare(t), <<"=", "I", "D", "+", "N", "U", "M">>)
                    \/ Contains(Bare(t), <<"=", "I", "D", "-", "N", "U", "M">>)
                 THEN "ARITH"
            ELSE "OTHER"
    IN <<"FOR", norm_init(parts[1]), norm_cond(parts[2]), norm_incr(parts[3])>>

\* normalize_while_cond (lines 133-137), inside WHILE[...] (line 153)
normalize_while_cond(cond) ==
    LET sh == CondShape(cond)
    IN IF Contains(sh, <<"I", "D", "<", "N", "U", "M">>)
          \/ Contains(sh, <<"I", "D", ">", "N", "U", "M">>) THEN "CMP_NUM"
       ELSE IF Contains(sh, <<"I", "D">>) /\ ~Contains(sh, <<"N", "U", "M">>) THEN "COND_ID"
       ELSE "COND"

\* the index the next iteration starts with: behind the keyword after a
\* "continue" (lines 147-150), behind the closing parenthesis after a
\* matched header (line 154)
NextScanIndex_behind_keyword(kw_end, k) == kw_end

NextScanIndex(kw_end, k) == IF k = 0 THEN kw_end ELSE k + 1

\* extract_loop_signatures (lines 138-155): sigs is the set it returns;
\* steps records, for every iteration that finds a keyword, the index i it
\* starts with, the index behind the keyword (m.end()) and the index of the
\* closing parenthesis of a matched header (0 without one).
extract_loop_signatures(code) ==
    LET n == Len(code)
        WordChars == UpperCase \cup LowerCase \cup Digits \cup {"_"}
        \* re.compile(r'\bword\b').search(code, i): the start of the first
        \* match at or behind i, 0 if there is none
        RECURSIVE Search(_, _)
        Search(word, p) ==
            IF p + Len(word) - 1 > n THEN 0
            ELSE IF /\ SubSeq(code, p, p + Len(word) - 1) = word
                    /\ (p = 1 \/ code[p - 1] \notin WordChars)
                    /\ (p + Len(word) > n \/ code[p + Len(word)] \notin WordChars)
                 THEN p
            ELSE Search(word, p + 1)
        RECURSIVE SkipSpace(_)
        SkipSpace(j) == IF j <= n /\ code[j] \in {" ", "\n", "\t"} THEN SkipSpace(j + 1) ELSE j
        RECURSIVE Loop(_, _, _)
        Loop(i, sigs, steps) ==
            IF i > n THEN [sigs |-> sigs, steps |-> steps]
            ELSE LET mf == Search(<<"f", "o", "r">>, i)
                     mw == Search(<<"w", "h", "i", "l", "e">>, i)
                     kind == IF mf # 0 /\ (mw = 0 \/ mf < mw) THEN "FOR"
                             ELSE IF mw # 0 THEN "WHILE" ELSE "none"
                     kw_end == IF kind = "FOR" THEN mf + 3 ELSE mw + 5
                     j == SkipSpace(kw_end)
                     k == IF j > n \/ code[j] # "(" THEN 0 ELSE find_matching_paren(code, j)
                     inside == SubSeq(code, j + 1, k - 1)
                 IN IF kind = "none" THEN [sigs |-> sigs, steps |-> steps]
                    ELSE IF k = 0
                    THEN Loop(NextScanIndex(kw_end, k), sigs,
                              Append(steps, [start |-> i, kw_end |-> kw_end, close |-> 0]))
                    ELSE Loop(NextScanIndex(kw_end, k),
                              sigs \cup {IF kind = "FOR" THEN normalize_for_header(inside)
                                         ELSE <<"WHILE", normalize_while_cond(inside)>>},
                              Append(steps, [start |-> i, kw_end |-> kw_end, close |-> k]))
    IN Loop(1, {}, <<>>)

(***************************************************************************)
(* parse_qsigla (lines 25-28) with QNAME_RE (line 13):                     *)
(*     ^[qQ](\d+)[ _-]([A-Za-z0-9_-]+)\.c$                                 *)
(* Returns <<question number, author tag>> or None.                        *)
(***************************************************************************)
RECURSIVE DigitRun(_, _)
DigitRun(str, i) == IF i <= Len(str) /\ str[i] \in Digits THEN DigitRun(str, i + 1) ELSE i

parse_qsigla(path) ==
    LET base == Basename(path)
        e == DigitRun(base, 2)
        n == Len(base)
    IN IF /\ n >= 1 /\ base[1] \in {"q", "Q"}
          /\ e > 2
          /\ e <= n /\ base[e] \in {" ", "_", "-"}
          /\ n - 2 >= e + 1
          /\ \A i \in (e + 1)..(n - 2) : base[i] \in UpperCase \cup LowerCase \cup Digits \cup {"_", "-"}
          /\ base[n - 1] = "." /\ base[n] = "c"
       THEN <<DecimalValue(SubSeq(base, 2, e - 1), 1, 0), SubSeq(base, e + 1, n - 2)>>
       ELSE None

\* file_sigla_key (line 181)
file_sigla_key(p) == Lower(parse_qsigla(p)[2])

(***************************************************************************)
(* sorted(paths) of gather_files (line 180) and list.sort(key=...) of      *)
(* line 359: Python's sort is stable, modelled as an insertion sort that   *)
(* puts an element after the elements whose key is not greater.            *)
(***************************************************************************)
RECURSIVE InsertByKey(_, _, _, _)
InsertByKey(sorted, x, i, key) ==
    IF i > Len(sorted) THEN Append(sorted, x)
    ELSE IF StrLt(key[x], key[sorted[i]])
         THEN SubSeq(sorted, 1, i - 1) \o <<x>> \o SubSeq(sorted, i, Len(sorted))
         ELSE InsertByKey(sorted, x, i + 1, key)

RECURSIVE StableSort(_, _, _, _)
StableSort(list, i, acc, key) ==
    IF i > Len(list) THEN acc
    ELSE StableSort(list, i + 1, InsertByKey(acc, list[i], 1, key), key)

SortPaths_keeps_walk_order(list) == list

SortPaths(list) == StableSort(list, 1, <<>>, [p \in Range(list) |-> p])

sort_group(list) == StableSort(list, 1, <<>>, [p \in Range(list) |-> file_sigla_key(p)])

\* an enumeration of a set of paths, as os.walk may list it
RECURSIVE SetToSeq(_)
SetToSeq(S) == IF S = {} THEN <<>> ELSE LET x == CHOOSE y \in S : TRUE
                                        IN <<x>> \o SetToSeq(S \ {x})

(***************************************************************************)
(* main(), lines 356-395: grouping, pairwise pass, baseline, best match    *)
(* and rows, as operators of the path list, the Features and the arguments.*)
(***************************************************************************)
QuestionOf(p) == parse_qsigla(p)[1]

\* lines 356-360
GroupsOf_keeps_single_files(ps) ==
    LET qs == {QuestionOf(ps[i]) : i \in DOMAIN ps}
        InQ(q) == SelectSeq(ps, LAMBDA p : QuestionOf(p) = q)
    IN [q \in {x \in qs : Len(InQ(x)) >= 1} |-> sort_group(InQ(q))]

GroupsOf(ps) ==
    LET qs == {QuestionOf(ps[i]) : i \in DOMAIN ps}
        InQ(q) == SelectSeq(ps, LAMBDA p : QuestionOf(p) = q)
    IN [q \in {x \in qs : Len(InQ(x)) >= 2} |-> sort_group(InQ(q))]

\* every ordered pair of two positions of plist
RECURSIVE Combinations_both_orders(_, _, _)
Combinations_both_orders(plist, i, j) ==
    IF i > Len(plist) THEN <<>>
    ELSE IF j > Len(plist) THEN Combinations_both_orders(plist, i + 1, 1)
    ELSE (IF i # j THEN <<<<plist[i], plist[j]>>>> ELSE <<>>)
         \o Combinations_both_orders(plist, i, j + 1)

\* itertools.combinations(plist, 2) (line 369), in its order
RECURSIVE Combinations(_, _, _)
Combinations(plist, i, j) ==
    IF i >= Len(plist) THEN <<>>
    ELSE IF j > Len(plist) THEN Combinations(plist, i + 1, i + 2)
    ELSE <<<<plist[i], plist[j]>>>> \o Combinations(plist, i, j + 1)

\* lines 368-373
RECURSIVE PairLoop(_, _, _, _, _)
PairLoop(combos, i, fts, weights, acc) ==
    IF i > Len(combos) THEN acc
    ELSE LET a == combos[i][1]
             b == combos[i][2]
             fa == fts[a]
             fb == fts[b]
         IN IF HasError(fa) \/ HasError(fb) \/ IsTooShort(fa) \/ IsTooShort(fb)
            THEN PairLoop(combos, i + 1, fts, weights, acc)
            ELSE LET r == compare_pair(fa, fb, weights)
                 IN PairLoop(combos, i + 1, fts, weights, Append(acc, <<a, b, r[1], r[2]>>))

PairsOf(plist, fts, weights) == PairLoop(Combinations(plist, 1, 2), 1, fts, weights, <<>>)

\* lines 375-376
ScoresOf(prs) == [i \in DOMAIN prs |-> prs[i][3]]

\* lines 380-383
RECURSIVE BestLoop_last_wins(_, _, _)
BestLoop_last_wins(prs, i, bst) ==
    IF i > Len(prs) THEN bst
    ELSE LET a == prs[i][1]
             b == prs[i][2]
             sc == prs[i][3]
             br == prs[i][4]
             b1 == IF FGe(sc, bst[a][2]) THEN [bst EXCEPT ![a] = <<b, sc, br>>] ELSE bst
             b2 == IF FGe(sc, b1[b][2]) THEN [b1 EXCEPT ![b] = <<a, sc, br>>] ELSE b1
         IN BestLoop_last_wins(prs, i + 1, b2)

RECURSIVE BestLoop(_, _, _)
BestLoop(prs, i, bst) ==
    IF i > Len(prs) THEN bst
    ELSE LET a == prs[i][1]
             b == prs[i][2]
             sc == prs[i][3]
             br == prs[i][4]
             b1 == IF FGt(sc, bst[a][2]) THEN [bst EXCEPT ![a] = <<b, sc, br>>] ELSE bst
             b2 == IF FGt(sc, b1[b][2]) THEN [b1 EXCEPT ![b] = <<a, sc, br>>] ELSE b1
         IN BestLoop(prs, i + 1, b2)

BestOf(plist, prs) == BestLoop(prs, 1, [p \in Range(plist) |-> <<None, MinusOne, None>>])

\* the em dash string of line 392, a one-character string
Dash == <<"EM DASH">>

ZeroBreakdown ==
    [jaccard |-> Zero, control |-> Zero, idents |-> Zero, loops |-> Zero, calls |-> Zero]

\* the row without the reset of the score of line 389
RowOf_keeps_sentinel(q, p, bst, th, policy) ==
    LET sig == parse_qsigla(p)[2]
        mate == bst[p][1]
        br == IF bst[p][3] = None THEN ZeroBreakdown ELSE bst[p][3]
        score == bst[p][2]
    IN [question |-> q, sigla |-> sig, nome |-> None, file |-> Basename(p),
        best_with |-> IF mate # <<>> THEN Basename(mate) ELSE Dash,
        score |-> score, br |-> br,
        status |-> status_from_policy(score, br, th, policy)]

\* lines 388-393, with no roster given (read_roster returns {} and nome is None)
RowOf(q, p, bst, th, policy) ==
    LET sig == parse_qsigla(p)[2]
        mate == bst[p][1]
        br == IF bst[p][3] = None THEN ZeroBreakdown ELSE bst[p][3]
        score == IF bst[p][3] = None THEN Zero ELSE bst[p][2]
    IN [question |-> q, sigla |-> sig, nome |-> None, file |-> Basename(p),
        best_with |-> IF mate # <<>> THEN Basename(mate) ELSE Dash,
        score |-> score, br |-> br,
        status |-> status_from_policy(score, br, th, policy)]

RowsOf(q, plist, bst, th, policy) ==
    [i \in DOMAIN plist |-> RowOf(q, plist[i], bst, th, policy)]

\* the whole of lines 356-395 for one question of the retained groups
QuestionRows(ps, fts, a, q) ==
    LET plist == GroupsOf(ps)[q]
    IN RowsOf(q, plist, BestOf(plist, PairsOf(plist, fts, a.weights)), a.th, a.policy)

\* sorted(groups.items()) (line 366): the least question after q, 0 if none
NextQuestion(gs, q) ==
    LET later == {x \in DOMAIN gs : x > q}
    IN IF later = {} THEN 0 ELSE CHOOSE x \in later : \A y \in later : x <= y

(***************************************************************************)
(* c_similarity_final.py: the body of the per-question loop of main()      *)
(* (lines 273-315), which adds a z-score to every row.  Its baseline_stats *)
(* (lines 143-147) has the text of lines 255-258 of the fine script.       *)
(***************************************************************************)
final_baseline_stats(values) == baseline_stats(values)

\* status_from_scores (lines 149-166) as main() calls it (lines 304-305):
\* ctl, idv, loops and calls are None, weighted_score is j, weighted_th th_j
status_from_scores(j, th_j, policy) ==
    LET j_or_0 == IF IsNone(j) THEN Zero ELSE j
        sus == CASE policy = "any" -> ~IsNone(j) /\ FGe(j, th_j)
                 [] policy = "all" -> IsNone(j) \/ FGe(j, th_j)
                 [] OTHER -> FGe(j_or_0, th_j)
    IN IF sus THEN "SUSPEITO"
       ELSE IF FGe(j_or_0, FMul(th_j, <<17, 20>>)) THEN "REVISAR" ELSE "OK"

\* lines 276-282
RECURSIVE FinalPairLoop(_, _, _, _)
FinalPairLoop(combos, i, fts, acc) ==
    IF i > Len(combos) THEN acc
    ELSE LET a == combos[i][1]
             b == combos[i][2]
             fa == fts[a]
             fb == fts[b]
         IN IF HasError(fa) \/ HasError(fb) \/ IsTooShort(fa) \/ IsTooShort(fb)
            THEN FinalPairLoop(combos, i + 1, fts, acc)
            ELSE FinalPairLoop(combos, i + 1, fts,
                     Append(acc, <<a, b, jaccard(fa.shingles, fb.shingles),
                                   final_cosine(fa.tf, fb.tf)>>))

\* lines 290-293
RECURSIVE FinalIdxLoop(_, _, _)
FinalIdxLoop(prs, i, idx) ==
    IF i > Len(prs) THEN idx
    ELSE LET a == prs[i][1]
             b == prs[i][2]
             j == prs[i][3]
             c == prs[i][4]
             idx1 == IF FGt(j, idx[a].j) THEN [idx EXCEPT ![a] = [mate |-> b, j |-> j, c |-> c]]
                     ELSE idx
             idx2 == IF FGt(j, idx1[b].j) THEN [idx1 EXCEPT ![b] = [mate |-> a, j |-> j, c |-> c]]
                     ELSE idx1
         IN FinalIdxLoop(prs, i + 1, idx2)

\* line 302: the z-score of a row, or the exception the expression raises
\* (float / tuple)
zscore(j, mean, sd) ==
    IF ~IsNone(j) /\ ~IsNone(mean) /\ ~(IsNone(sd) \/ (DOMAIN sd = 1..2 /\ sd[1] = 0))
    THEN IF IsTuple(sd) THEN [raised |-> "TypeError"]
         ELSE [difference |-> FAdd(j, FMul(MinusOne, mean)), over |-> sd]
    ELSE None

Raised(v) == DOMAIN v = {"raised"}

\* lines 274-315 for one question: the rows, or the exception that ends the run
final_question(plist, fts, th_j, policy) ==
    LET prs == FinalPairLoop(Combinations(plist, 1, 2), 1, fts, <<>>)
        base == final_baseline_stats([i \in DOMAIN prs |-> prs[i][3]])
        idx == FinalIdxLoop(prs, 1,
                   [p \in Range(plist) |-> [mate |-> None, j |-> MinusOne, c |-> MinusOne]])
        row(p) ==
            LET j == IF FGe(idx[p].j, Zero) THEN idx[p].j ELSE None
                c == IF DOMAIN idx[p].c = 1..2 /\ idx[p].c[1] < 0 THEN None ELSE idx[p].c
            IN [question |-> QuestionOf(p), sigla |-> parse_qsigla(p)[2], nome |-> None,
                file |-> Basename(p),
                best_with |-> IF idx[p].mate # <<>> THEN Basename(idx[p].mate) ELSE Dash,
                jaccard |-> j, cosine |-> c, zscore |-> zscore(j, base[1], base[2]),
                status |-> status_from_scores(j, th_j, policy)]
        rows == [i \in DOMAIN plist |-> row(plist[i])]
    IN IF \E i \in DOMAIN rows : Raised(rows[i].zscore)
       THEN [raised |-> "TypeError"]
       ELSE [rows |-> rows, q_baseline |-> base]

(***************************************************************************)
(* Bounds and the inputs drawn within them.                                *)
(***************************************************************************)
MaxFiles == 4          \* files gathered by one run of main()
MaxElems == 3          \* elements of the sets given to jaccard
MaxSeqLen == 3         \* length of the control streams given to sim_edit
MaxSrcLen == 4         \* length of the source texts enumerated character by character
MaxPieces == 5         \* words and characters a text with loop keywords is put together from
GridDen == 20          \* scores and thresholds are multiples of 1/GridDen

DEFAULT_K == 5
DEFAULT_MIN_TOKENS == 10

\* q1_ab.c, q01-ab.c (same question and tag, other spelling), q1_AB.c (tag
\* equal up to case), q2_cd.c and d/q2_cd.c (same basename, two directories)
PathCatalogue ==
    {<<"q", "1", "_", "a", "b", ".", "c">>,
     <<"q", "0", "1", "-", "a", "b", ".", "c">>,
     <<"q", "1", "_", "A", "B", ".", "c">>,
     <<"q", "2", "_", "c", "d", ".", "c">>,
     <<"d", "/", "q", "2", "_", "c", "d", ".", "c">>}

\* DEFAULT_WEIGHTS (line 11), and --w-j 1.0 with the other defaults
DEFAULT_WEIGHTS ==
    [jaccard |-> <<2, 5>>, control |-> <<1, 5>>, idents |-> <<3, 20>>,
     loops |-> <<3, 20>>, calls |-> <<1, 10>>]

HeavyWeights == [DEFAULT_WEIGHTS EXCEPT !.jaccard = One]

\* --th: the default 0.70 (line 344), and 0
DEFAULT_TH == <<7, 10>>

Policies == {"any", "all", "weighted"}

ArgChoices == [weights : {DEFAULT_WEIGHTS}, th : {DEFAULT_TH, Zero}, policy : Policies]

\* Features build_features may return for a file: an extraction error, a
\* file below min_tokens, or the bundle of a text
FeatureChoices ==
    {ErrorFeat("unreadable"), TooShortFeat}
    \cup {extract_text(c, DEFAULT_K, TRUE, DEFAULT_MIN_TOKENS) : c \in {"T1", "T2"}}

KIdle == kin = <<>> /\ kout = None /\ kop = "idle"

MIdle ==
    /\ paths = <<>> /\ feats = <<>> /\ args = <<>> /\ pc = "idle" /\ groups = <<>>
    /\ qnum = 0 /\ pairs = <<>> /\ best = <<>> /\ rows_by_q = <<>> /\ mean_sd_by_q = <<>>

CIdle ==
    /\ fs = <<>> /\ disk = <<>> /\ bcfg = <<>> /\ bpc = "idle" /\ cache = <<>>
    /\ out = <<>> /\ todo = <<>> /\ results = <<>> /\ hits = {} /\ runs = 0

(***************************************************************************)
(* Spec: one run of main() after build_features has returned.              *)
(***************************************************************************)
Init ==
    /\ \E S \in SUBSET PathCatalogue :
          /\ Cardinality(S) <= MaxFiles
          /\ paths = SortPaths(SetToSeq(S))
          /\ feats \in [S -> FeatureChoices]
    /\ args \in ArgChoices
    /\ pc = "start"
    /\ groups = <<>> /\ qnum = 0 /\ pairs = <<>> /\ best = <<>>
    /\ rows_by_q = <<>> /\ mean_sd_by_q = <<>>
    /\ KIdle /\ CIdle

\* lines 351-364: the length test, the groups, the empty result maps
MainGroup ==
    /\ pc = "start"
    /\ IF Len(paths) < 2
       THEN /\ pc' = "done"
            /\ UNCHANGED <<groups, qnum>>
       ELSE /\ groups' = GroupsOf(paths)
            /\ qnum' = NextQuestion(groups', 0)
            /\ pc' = IF qnum' = 0 THEN "done" ELSE "pairs"
    /\ UNCHANGED <<paths, feats, args, pairs, best, rows_by_q, mean_sd_by_q>>
    /\ UNCHANGED kvars /\ UNCHANGED cvars

Extend(f, k, v) == [x \in DOMAIN f \cup {k} |-> IF x = k THEN v ELSE f[x]]

\* lines 367-377: the pairs of the question and its baseline
MainPairs ==
    /\ pc = "pairs"
    /\ pairs' = PairsOf(groups[qnum], feats, args.weights)
    /\ mean_sd_by_q' = Extend(mean_sd_by_q, qnum, baseline_stats(ScoresOf(pairs')))
    /\ pc' = "best"
    /\ UNCHANGED <<paths, feats, args, groups, qnum, best, rows_by_q>>
    /\ UNCHANGED kvars /\ UNCHANGED cvars

\* lines 379-383: the best peer of every file of the question
MainBest ==
    /\ pc = "best"
    /\ best' = BestOf(groups[qnum], pairs)
    /\ pc' = "rows"
    /\ UNCHANGED <<paths, feats, args, groups, qnum, pairs, rows_by_q, mean_sd_by_q>>
    /\ UNCHANGED kvars /\ UNCHANGED cvars

\* lines 385-395: the rows of the question; then the next question
MainRows ==
    /\ pc = "rows"
    /\ rows_by_q' = Extend(rows_by_q, qnum, RowsOf(qnum, groups[qnum], best, args.th, args.policy))
    /\ qnum' = NextQuestion(groups, qnum)
    /\ pc' = IF qnum' = 0 THEN "done" ELSE "pairs"
    /\ UNCHANGED <<paths, feats, args, groups, pairs, best, mean_sd_by_q>>
    /\ UNCHANGED kvars /\ UNCHANGED cvars

Next == MainGroup \/ MainPairs \/ MainBest \/ MainRows

Spec == Init /\ [][Next]_vars

(***************************************************************************)
(* SpecKernel: the pure functions of the similarity kernel and the status  *)
(* classifier, each applied once to an input drawn from a bounded set.     *)
(***************************************************************************)
Grid == {Frac(i, GridDen) : i \in 0..GridDen}

Halves == {Zero, <<1, 2>>, One}

JaccardInputs == [fn : {"jaccard"}, a : SUBSET (1..MaxElems), b : SUBSET (1..MaxElems)]

StatusInputs ==
    [fn : {"status_from_policy"}, score : Grid,
     br : [jaccard : Halves, control : Halves, idents : Halves, loops : Halves, calls : Halves],
     th : {<<-1, 2>>, Zero, <<1, 2>>, DEFAULT_TH, One}, policy : Policies]

\* bundles of the texts long enough for the pairwise pass, with and
\* without identifier normalization
FullFeatures ==
    {extract_text(c, DEFAULT_K, n, DEFAULT_MIN_TOKENS) : c \in Contents \ {"T4"}, n \in BOOLEAN}

CompareInputs ==
    [fn : {"compare_pair"}, fa : FullFeatures, fb : FullFeatures,
     weights : {DEFAULT_WEIGHTS, HeavyWeights}]

\* control streams: lists of the words control_stream emits

ControlStreams == UNION {[1..n -> {"IF", "SEMI", "WHILE"}] : n \in 0..MaxSeqLen}

SimEditInputs == [fn : {"sim_edit"}, a : ControlStreams, b : ControlStreams]

\* the Counters of the token lists of up to MaxSeqLen tokens over two texts
TokenLists == UNION {[1..n -> {"x", "y"}] : n \in 0..MaxSeqLen}

CosineInputs ==
    [fn : {"cosine"},
     script : {"c_similarity_fine_final", "c_similarity_final", "c_similarity"},
     ca : {Counter(t) : t \in TokenLists}, cb : {Counter(t) : t \in TokenLists}]

\* raw token lists of up to MaxSeqLen tokens: three identifiers (one spelt
\* like an alias), a keyword, a parenthesis; an injective renaming of the
\* identifiers to fresh names; a shingle width
RawTokens == {Id("x"), Id("y"), Id("ID1"), Id("while"), Pn("(")}

OldNames == {"x", "y", "ID1"}

Renamings == {m \in [OldNames -> {"u", "v", "w"}] : \A a, b \in OldNames : m[a] = m[b] => a = b}

NormalizeInputs ==
    [fn : {"normalize_identifiers"},
     tokens : UNION {[1..n -> RawTokens] : n \in 0..MaxSeqLen},
     renaming : Renamings, k : 1..2]

\* the tokens of the source with every non-keyword identifier renamed
Rename(tokens, m) ==
    [i \in DOMAIN tokens |->
        IF IsPlainIdentifier(tokens[i]) THEN Id(m[tokens[i].txt]) ELSE tokens[i]]

\* lines 195-202 of _extract_one with do_norm: what is derived from tok_raw
TokenFeatures(tok_raw, k) ==
    LET tok_norm == normalize_identifiers(tok_raw)
    IN [tok_norm |-> tok_norm, shingles |-> shingles(tok_norm, k), tf |-> Counter(tok_norm),
        idents |-> extract_identifiers(tok_raw), calls |-> extract_function_calls(tok_raw)]

\* lists of up to MaxSeqLen pair scores
BaselineInputs ==
    [fn : {"baseline_stats"}, values : UNION {[1..n -> Halves] : n \in 0..MaxSeqLen}]

\* a question of c_similarity_final.py: two or three files of question 1,
\* each in error, too short, or with the bundle of a text
FinalQuestionInputs ==
    UNION {[fn : {"final_question"}, plist : {sort_group(SortPaths(SetToSeq(S)))},
            fts : [S -> {ErrorFeat("unreadable"), TooShortFeat}
                         \cup {extract_text(c, DEFAULT_K, TRUE, DEFAULT_MIN_TOKENS) :
                                   c \in {"T1", "T3", "T5"}}],
            policy : Policies] :
           S \in {X \in SUBSET {p \in PathCatalogue : QuestionOf(p) = 1} : Cardinality(X) >= 2}}

\* the source texts read_text (lines 183-184) hands to the masking: every text
\* of up to MaxSrcLen characters over five characters, and three longer ones
SourceTexts ==
    LET SrcChars == {"a", "'", "/", "*", "\n"}
        SampleDeclarations ==
            <<"i", "n", "t", " ", "x", " ", "=", " ", "1", ";", " ", "/", "*", " ", "y", " ",
              "=", " ", "\"", "2", "\"", ";", " ", "*", "/", " ", "i", "n", "t", " ", "y", " ",
              "=", " ", "2", ";">>
        SampleApostrophes ==
            <<"/", "*", " ", "d", "o", "n", "'", "t", " ", "*", "/", " ", "x", " ", "=", " ",
              "1", ";", " ", "/", "*", " ", "i", "t", "'", "s", " ", "*", "/">>
        SampleEscapedQuote ==
            <<"s", " ", "=", " ", "\"", "a", "\\", "\"", "/", "/", "b", "\"", ";", " ", "/",
              "/", " ", "c", "\n", "y", ";">>
    IN UNION {[1..n -> SrcChars] : n \in 0..MaxSrcLen}
           \cup {SampleDeclarations, SampleApostrophes, SampleEscapedQuote}
MaskInputs == [fn : {"strip_comments_and_strings"}, code : SourceTexts]

\* tokenize(strip_comments_and_strings("if(a){for(i=0;i<n;i++){}}"))
IfForTokens ==
    <<Id("if"), Pn("("), Id("a"), Pn(")"), Pn("{"), Id("for"), Pn("("), Id("i"), Pn("="),
      Num("0"), Pn(";"), Id("i"), Pn("<"), Id("n"), Pn(";"), Id("i"), Op("++"), Pn(")"),
      Pn("{"), Pn("}"), Pn("}")>>

\* raw token lists given to control_stream: every list of up to MaxSeqLen
\* tokens over two keywords, an identifier spelt like a keyword in upper
\* case, another with one capital, a plain identifier, a brace and a
\* semicolon; and the tokens of the sample source
CtrlInputs ==
    [fn : {"control_stream"},
     tokens : UNION {[1..n -> {Id("if"), Id("while"), Id("IF"), Id("While"), Id("x"),
                               Pn("{"), Pn(";")}] : n \in 0..MaxSeqLen}
              \cup {IfForTokens}]

\* masked texts given to extract_loop_signatures.  form "pieces": every
\* text put together from up to MaxPieces of for, while, (, ) and a space.
\* form "full": for (init;cond;incr) for the listed parts; form "short":
\* for (init), a header with no ';'.
LoopInputs ==
    LET RECURSIVE Flatten(_)
        Flatten(ps) == IF ps = <<>> THEN <<>> ELSE Head(ps) \o Flatten(Tail(ps))
        Pieces == {<<"f", "o", "r">>, <<"w", "h", "i", "l", "e">>, <<"(">>, <<")">>, <<" ">>}
        Inits == {<<>>, <<"i", "n", "t", " ", "i", " ", "=", " ", "0">>}
        Conds == {<<>>, <<" ">>, <<" ", "i", " ", "<", " ", "n">>, <<"i", "<", "9">>,
                  <<"i", "<", "=", "9">>, <<"i", ">", "9">>, <<"i", ">", "=", "9">>,
                  <<"i", "=", "=", "j">>, <<"i", "=", "=", "9">>, <<"i", "!", "=", "9">>,
                  <<"9", "<", "i">>, <<"i", "=", "=", "j", "&", "&", "i", ">", "9">>,
                  <<"x", "1", "<", "1", ".", "5">>}
        Incrs == {<<>>, <<" ", "i", "+", "+">>}
        Open == <<"f", "o", "r", " ", "(">>
    IN {[fn |-> "extract_loop_signatures", form |-> "pieces", code |-> Flatten(ps),
         init |-> <<>>, cond |-> <<>>, incr |-> <<>>] :
            ps \in UNION {[1..n -> Pieces] : n \in 0..MaxPieces}}
       \cup {[fn |-> "extract_loop_signatures", form |-> "full",
              code |-> Open \o a \o <<";">> \o b \o <<";">> \o c \o <<")">>,
              init |-> a, cond |-> b, incr |-> c] :
                 a \in Inits, b \in Conds, c \in Incrs}
       \cup {[fn |-> "extract_loop_signatures", form |-> "short",
              code |-> Open \o a \o <<")">>, init |-> a, cond |-> <<>>, incr |-> <<>>] :
                 a \in Inits}

\* command lines of main: --k, --w-j and --policy, the other options at
\* their defaults
ArgvChoices ==
    [fn : {"parse_args"}, k : {-1, 0, 1, DEFAULT_K},
     w_j : {MinusOne, Zero, DEFAULT_WEIGHTS.jaccard}, policy : Policies \cup {"strict"}]

\* ap.parse_args() (lines 327-346) and the weights of line 348: --k is any
\* int, the weights are any floats, --policy is one of the choices or
\* argparse prints its message and exits with status 2
parse_args(argv) ==
    IF argv.policy \notin Policies THEN [raised |-> "SystemExit(2)"]
    ELSE [k |-> argv.k, weights |-> [DEFAULT_WEIGHTS EXCEPT !.jaccard = argv.w_j],
          policy |-> argv.policy]

KernelInit ==
    /\ kin \in JaccardInputs \cup StatusInputs \cup CompareInputs \cup SimEditInputs
               \cup CosineInputs \cup BaselineInputs \cup FinalQuestionInputs
               \cup NormalizeInputs \cup MaskInputs \cup ArgvChoices
               \cup CtrlInputs \cup LoopInputs
    /\ kout = None
    /\ kop = "none"
    /\ MIdle /\ CIdle

ApplyJaccard ==
    /\ kop = "none" /\ kin.fn = "jaccard"
    /\ kout' = jaccard(kin.a, kin.b)
    /\ kop' = "jaccard"
    /\ UNCHANGED <<kin>> /\ UNCHANGED mvars /\ UNCHANGED cvars

ApplyStatus ==
    /\ kop = "none" /\ kin.fn = "status_from_policy"
    /\ kout' = status_from_policy(kin.score, kin.br, kin.th, kin.policy)
    /\ kop' = "status_from_policy"
    /\ UNCHANGED <<kin>> /\ UNCHANGED mvars /\ UNCHANGED cvars

ApplyCompare ==
    /\ kop = "none" /\ kin.fn = "compare_pair"
    /\ kout' = compare_pair(kin.fa, kin.fb, kin.weights)
    /\ kop' = "compare_pair"
    /\ UNCHANGED <<kin>> /\ UNCHANGED mvars /\ UNCHANGED cvars

ApplySimEdit ==
    /\ kop = "none" /\ kin.fn = "sim_edit"
    /\ kout' = sim_edit(kin.a, kin.b)
    /\ kop' = "sim_edit"
    /\ UNCHANGED <<kin>> /\ UNCHANGED mvars /\ UNCHANGED cvars

ApplyCosine ==
    /\ kop = "none" /\ kin.fn = "cosine"
    /\ kout' = CASE kin.script = "c_similarity_fine_final" -> cosine(kin.ca, kin.cb)
                 [] kin.script = "c_similarity_final" -> final_cosine(kin.ca, kin.cb)
                 [] kin.script = "c_similarity" -> cosine_counter(kin.ca, kin.cb)
    /\ kop' = "cosine"
    /\ UNCHANGED <<kin>> /\ UNCHANGED mvars /\ UNCHANGED cvars

ApplyBaseline ==
    /\ kop = "none" /\ kin.fn = "baseline_stats"
    /\ kout' = baseline_stats(kin.values)
    /\ kop' = "baseline_stats"
    /\ UNCHANGED <<kin>> /\ UNCHANGED mvars /\ UNCHANGED cvars

ApplyFinalQuestion ==
    /\ kop = "none" /\ kin.fn = "final_question"
    /\ kout' = final_question(kin.plist, kin.fts, DEFAULT_TH, kin.policy)
    /\ kop' = "final_question"
    /\ UNCHANGED <<kin>> /\ UNCHANGED mvars /\ UNCHANGED cvars

\* the features of a source and of the same source renamed
ApplyNormalize ==
    /\ kop = "none" /\ kin.fn = "normalize_identifiers"
    /\ kout' = [source |-> TokenFeatures(kin.tokens, kin.k),
                renamed |-> TokenFeatures(Rename(kin.tokens, kin.renaming), kin.k)]
    /\ kop' = "normalize_identifiers"
    /\ UNCHANGED <<kin>> /\ UNCHANGED mvars /\ UNCHANGED cvars

\* lines 188-190 of _extract_one: the text is masked, then tokenized
ApplyStrip ==
    /\ kop = "none" /\ kin.fn = "strip_comments_and_strings"
    /\ kout' = LET clean == strip_comments_and_strings(kin.code)
               IN [clean |-> clean, tok_raw |-> tokenize(clean)]
    /\ kop' = "strip_comments_and_strings"
    /\ UNCHANGED <<kin>> /\ UNCHANGED mvars /\ UNCHANGED cvars

\* line 203 of _extract_one: control_stream(tok_raw)
ApplyControlStream ==
    /\ kop = "none" /\ kin.fn = "control_stream"
    /\ kout' = control_stream(kin.tokens)
    /\ kop' = "control_stream"
    /\ UNCHANGED <<kin>> /\ UNCHANGED mvars /\ UNCHANGED cvars

\* line 204 of _extract_one: extract_loop_signatures(clean)
ApplyLoopSignatures ==
    /\ kop = "none" /\ kin.fn = "extract_loop_signatures"
    /\ kout' = extract_loop_signatures(kin.code)
    /\ kop' = "extract_loop_signatures"
    /\ UNCHANGED <<kin>> /\ UNCHANGED mvars /\ UNCHANGED cvars

\* lines 346-350 of main: the arguments are parsed and, with no other test
\* of their values, gather_files and build_features are called
ApplyParseArgs ==
    /\ kop = "none" /\ kin.fn = "parse_args"
    /\ kout' = LET parsed == parse_args(kin)
               IN [args |-> parsed,
                   pc |-> IF Raised(parsed) THEN "exit" ELSE "gather_files"]
    /\ kop' = "parse_args"
    /\ UNCHANGED <<kin>> /\ UNCHANGED mvars /\ UNCHANGED cvars

KernelNext ==
    \/ ApplyJaccard \/ ApplyStatus \/ ApplyCompare \/ ApplySimEdit \/ ApplyCosine
    \/ ApplyBaseline \/ ApplyFinalQuestion \/ ApplyNormalize \/ ApplyStrip
    \/ ApplyParseArgs \/ ApplyControlStream \/ ApplyLoopSignatures

SpecKernel == KernelInit /\ [][KernelNext]_vars

(***************************************************************************)
(* SpecCache: runs of build_features (lines 225-242) over two files, with  *)
(* the cache file kept between runs and the files rewritten at any time.   *)
(* A rewrite sets a later st_mtime_ns and the st_size of the new text.     *)
(***************************************************************************)
MaxMtime == 2          \* greatest st_mtime_ns a file reaches
MaxRuns == 2           \* runs of the program over the same files

BuildPaths == SortPaths(SetToSeq({p \in PathCatalogue : QuestionOf(p) = 2}))

FileTexts == {"T1", "T4"}

\* (k, normalize, min_tokens, jobs) of a run: the defaults (--jobs 0), --k 2
\* with --jobs 2, --no-normalize with --jobs 1, --min-tokens 3, and --jobs -1
BuildCfgs ==
    {[k |-> DEFAULT_K, do_norm |-> TRUE, min_tokens |-> DEFAULT_MIN_TOKENS, jobs |-> 0],
     [k |-> 2, do_norm |-> TRUE, min_tokens |-> DEFAULT_MIN_TOKENS, jobs |-> 2],
     [k |-> DEFAULT_K, do_norm |-> FALSE, min_tokens |-> DEFAULT_MIN_TOKENS, jobs |-> 1],
     [k |-> DEFAULT_K, do_norm |-> TRUE, min_tokens |-> 3, jobs |-> 0],
     [k |-> DEFAULT_K, do_norm |-> TRUE, min_tokens |-> DEFAULT_MIN_TOKENS, jobs |-> -1]}

\* feature_key (lines 210-212): os.stat raises FileNotFoundError for a file
\* that is no longer there, and nothing in feature_key catches it
feature_key(p) ==
    IF fs[p].content = "missing" THEN [raised |-> "FileNotFoundError"]
    ELSE <<p, fs[p].mtime_ns, fs[p].size>>

\* _extract_one (lines 186-208) on the text the file holds when it is read;
\* the exception of read_text for a missing file, or for one the user may
\* not read, is caught at line 207
extract_one(task) ==
    <<task[1], IF fs[task[1]].content = "missing" THEN ErrorFeat("ENOENT")
               ELSE IF ~fs[task[1]].readable THEN ErrorFeat("EACCES")
               ELSE extract_text(fs[task[1]].content, task[2], task[3], task[4])>>

\* What CACHE_FILE may hold when the program starts: no file, bytes that are
\* not a pickle (among them a truncated file), the pickle of a list, the
\* pickle of a dict whose one entry has the key of a gathered file and the
\* Features of an earlier format.  save_cache writes [dict |-> cache].
CacheFiles ==
    {[missing |-> TRUE], [garbage |-> "not a pickle"], [list |-> <<>>],
     [old_dict |-> [key \in {<<BuildPaths[1], 1, SrcSize("T1")>>} |->
                       [too_short |-> FALSE, hash |-> "h", tokens |-> <<"int">>]]]}

\* load_cache (lines 214-219): {} without a file or when pickle.load raises,
\* else the object pickle.load returns, whatever it is
load_cache_always_empty(file) == [dict |-> <<>>]

load_cache(file) ==
    IF DOMAIN file \in {{"missing"}, {"garbage"}} THEN [dict |-> <<>>]
    ELSE IF DOMAIN file = {"old_dict"} THEN [dict |-> file.old_dict]
    ELSE file

CacheInit ==
    /\ fs \in [Range(BuildPaths) ->
                 {[content |-> c, mtime_ns |-> 1, size |-> SrcSize(c), readable |-> TRUE] :
                     c \in FileTexts}]
    /\ disk \in CacheFiles
    /\ bcfg = <<>> /\ bpc = "idle" /\ cache = <<>> /\ out = <<>>
    /\ todo = <<>> /\ results = <<>> /\ hits = {} /\ runs = 0
    /\ KIdle /\ MIdle

\* another program rewrites a file that is there; st_mtime_ns is the time
\* of the rewrite, later than that of every earlier one
WriteFile ==
    /\ \E p \in DOMAIN fs : \E c \in FileTexts \ {fs[p].content} :
          LET now == CHOOSE t \in 1..MaxMtime :
                         /\ \E q \in DOMAIN fs : fs[q].mtime_ns = t
                         /\ \A q \in DOMAIN fs : fs[q].mtime_ns <= t
          IN /\ now < MaxMtime /\ fs[p].content # "missing"
             /\ fs' = [fs EXCEPT ![p] = [content |-> c, mtime_ns |-> now + 1,
                                         size |-> SrcSize(c), readable |-> fs[p].readable]]
    /\ UNCHANGED <<disk, bcfg, bpc, cache, out, todo, results, hits, runs>>
    /\ UNCHANGED kvars /\ UNCHANGED mvars

\* another program deletes a file that was gathered
DeleteFile ==
    /\ \E p \in DOMAIN fs :
          /\ fs[p].content # "missing"
          /\ fs' = [fs EXCEPT ![p] = [content |-> "missing", mtime_ns |-> fs[p].mtime_ns,
                                      size |-> 0, readable |-> TRUE]]
    /\ UNCHANGED <<disk, bcfg, bpc, cache, out, todo, results, hits, runs>>
    /\ UNCHANGED kvars /\ UNCHANGED mvars

\* between two runs the permission to read the first file is taken away or
\* given back (chmod): st_mtime_ns and st_size stay as they are
Chmod ==
    /\ bpc \in {"idle", "raised"}
    /\ \E p \in {BuildPaths[1]} :
          /\ fs[p].content # "missing"
          /\ fs' = [fs EXCEPT ![p].readable = ~fs[p].readable]
    /\ UNCHANGED <<disk, bcfg, bpc, cache, out, todo, results, hits, runs>>
    /\ UNCHANGED kvars /\ UNCHANGED mvars

\* lines 229-234 as a fold over the paths
RECURSIVE ScanTodo(_, _, _, _)
ScanTodo(ps, i, loaded, cfg) ==
    IF i > Len(ps) THEN <<>>
    ELSE IF feature_key(ps[i]) \in DOMAIN loaded
         THEN ScanTodo(ps, i + 1, loaded, cfg)
         ELSE <<<<ps[i], cfg.k, cfg.do_norm, cfg.min_tokens>>>> \o ScanTodo(ps, i + 1, loaded, cfg)

\* lines 226-234: load the cache, take the hits, list the misses; an
\* exception of feature_key (line 230) leaves build_features, and main with
\* it.  A later run of the program starts from the cache file again.
BuildScan ==
    /\ bpc \in {"idle", "raised"} /\ runs < MaxRuns
    /\ \E cfg \in BuildCfgs :
          /\ bcfg' = cfg
          /\ LET loaded == load_cache(disk)
                 \* "key in cache" is False for every key when cache is a list
                 entries == IF DOMAIN loaded = {"dict"} THEN loaded.dict ELSE <<>>
             IN /\ cache' = loaded
                /\ IF \E p \in Range(BuildPaths) : Raised(feature_key(p))
                   THEN /\ todo' = <<>> /\ hits' = {}
                        /\ out' = [raised |-> "FileNotFoundError"]
                        /\ bpc' = "raised"
                   ELSE IF ScanTodo(BuildPaths, 1, entries, cfg) # <<>> /\ cfg.jobs < 0
                   \* line 236: ProcessPoolExecutor(max_workers=jobs or None)
                   \* raises ValueError for a negative jobs
                   THEN /\ todo' = <<>> /\ hits' = {}
                        /\ out' = [raised |-> "ValueError"]
                        /\ bpc' = "raised"
                   ELSE /\ todo' = ScanTodo(BuildPaths, 1, entries, cfg)
                        /\ hits' = {p \in Range(BuildPaths) :
                                       feature_key(p) \in DOMAIN entries}
                        /\ out' = [p \in hits' |-> entries[feature_key(p)]]
                        /\ bpc' = IF todo' = <<>> THEN "return" ELSE "extract"
    /\ results' = <<>>
    /\ runs' = runs + 1
    /\ UNCHANGED <<fs, disk>>
    /\ UNCHANGED kvars /\ UNCHANGED mvars

\* a pool worker runs _extract_one on one task (line 237); the pool runs
\* the tasks in any order and any number of them before the coordinator
\* takes a result, which covers every pool size
Worker ==
    /\ bpc = "extract"
    /\ \E i \in DOMAIN todo \ DOMAIN results :
          results' = Extend(results, i, extract_one(todo[i]))
    /\ UNCHANGED <<fs, disk, bcfg, bpc, cache, out, todo, hits, runs>>
    /\ UNCHANGED kvars /\ UNCHANGED mvars

Collected_skips_first == Cardinality({i \in DOMAIN todo : todo[i][1] \in DOMAIN out}) + 1

Collected == Cardinality({i \in DOMAIN todo : todo[i][1] \in DOMAIN out})

\* lines 237-240: the coordinator takes the next result of ex.map, in task
\* order, and stores it under the key of a new stat; an exception of that
\* feature_key (line 238), or of the item assignment of line 240 when cache
\* is a list, leaves build_features before save_cache
Collect ==
    /\ bpc = "extract"
    /\ Collected + 1 \in DOMAIN results
    /\ LET r == results[Collected + 1]
       IN IF Raised(feature_key(r[1]))
          THEN /\ bpc' = "raised"
               /\ out' = [raised |-> "FileNotFoundError"]
               /\ UNCHANGED cache
          ELSE IF DOMAIN cache # {"dict"}
          THEN /\ bpc' = "raised"
               /\ out' = [raised |-> "TypeError"]
               /\ UNCHANGED cache
          ELSE /\ out' = Extend(out, r[1], r[2])
               /\ cache' = [dict |-> Extend(cache.dict, feature_key(r[1]), r[2])]
               /\ bpc' = IF Collected + 1 = Len(todo) THEN "save" ELSE "extract"
    /\ UNCHANGED <<fs, disk, bcfg, todo, results, hits, runs>>
    /\ UNCHANGED kvars /\ UNCHANGED mvars

\* line 241: save_cache
BuildSave ==
    /\ bpc = "save"
    /\ disk' = cache
    /\ bpc' = "return"
    /\ UNCHANGED <<fs, bcfg, cache, out, todo, results, hits, runs>>
    /\ UNCHANGED kvars /\ UNCHANGED mvars

\* line 242: return out; the locals of build_features are gone with it
BuildReturn ==
    /\ bpc = "return"
    /\ bpc' = "idle"
    /\ bcfg' = <<>> /\ cache' = <<>> /\ out' = <<>>
    /\ todo' = <<>> /\ results' = <<>> /\ hits' = {}
    /\ UNCHANGED <<fs, disk, runs>>
    /\ UNCHANGED kvars /\ UNCHANGED mvars

CacheNext == WriteFile \/ DeleteFile \/ Chmod \/ BuildScan \/ Worker \/ Collect \/ BuildSave \/ BuildReturn

SpecCache == CacheInit /\ [][CacheNext]_vars

\* C1: whenever a run takes a file's Features from the cache an earlier
\* run wrote, they equal what _extract_one produces for that file in that run.
C1_CachedFeaturesEqualFresh ==
    [][(/\ bpc = "idle" /\ bpc' # "idle"
        /\ DOMAIN disk = {"dict"}
        /\ \A key \in DOMAIN disk.dict : "tokens" \notin DOMAIN disk.dict[key]) =>
          \A p \in hits' :
              out'[p] = extract_one(<<p, bcfg'.k, bcfg'.do_norm, bcfg'.min_tokens>>)[2]]_vars

\* C21: in every interleaving of the workers, a worker's step only adds a
\* (path, Features) result and leaves the result map, the cache map and the
\* cache file alone; the cache file is written only by the save step, after
\* the result of every task was collected in task order; and the map the
\* run returns gives every missed file that was not rewritten during the
\* run the Features of its text, whatever the pool size and the order in
\* which the workers finished.
C21_WorkersReturnCoordinatorWrites ==
    [][/\ (bpc = "extract" /\ results' # results) =>
              /\ out' = out /\ cache' = cache /\ disk' = disk
              /\ \A i \in DOMAIN results' \ DOMAIN results : results'[i][1] = todo[i][1]
       /\ disk' # disk =>
              /\ bpc = "save" /\ bpc' = "return"
              /\ \A i \in DOMAIN todo :
                     /\ i \in DOMAIN results /\ todo[i][1] \in DOMAIN out
                     /\ out[todo[i][1]] = results[i][2]
       /\ (bpc = "save" /\ bpc' = "return") =>
              \A i \in DOMAIN todo :
                  LET p == todo[i][1]
                  IN (fs[p].mtime_ns = 1 /\ fs[p].content # "missing") =>
                         /\ p \in DOMAIN out
                         /\ out[p] = extract_one(todo[i])[2]]_vars

\* C21 witness: the second task's worker has finished before the first
\* task's, and the coordinator has collected nothing yet
C21_Witness ==
    /\ bpc = "extract" /\ Len(todo) = 2
    /\ DOMAIN results = {2} /\ DOMAIN out = {}

\* C27: when a file is rewritten while build_features runs, the bundle the
\* coordinator stores in the cache under the key (path, mtime_ns, size) of
\* its second stat is the bundle of the text the file has with that
\* mtime_ns and size.  Violated: the worker read the text before the
\* rewrite, and the key is taken after it.
C27_StoredBundleIsOfKeyedContent ==
    [][(bpc = "extract" /\ cache' # cache) =>
          \A p \in DOMAIN out' \ DOMAIN out :
              /\ <<p, fs[p].mtime_ns, fs[p].size>> \in DOMAIN cache'.dict
              /\ cache'.dict[<<p, fs[p].mtime_ns, fs[p].size>>]
                     = extract_one(<<p, bcfg.k, bcfg.do_norm, bcfg.min_tokens>>)[2]]_vars

C18_FileFailureNeverAborts ==
    /\ ~(bpc = "raised" /\ out.raised = "FileNotFoundError")
    /\ bpc = "return" => DOMAIN out = Range(BuildPaths)

\* C20: whatever CACHE_FILE holds that build_features did not write itself,
\* the run behaves as with an empty cache: it does not fail on the cache
\* and takes no Features from it.  Violated: the pickle of a list makes the
\* assignment of line 240 raise; the entry of an old dict is returned.
C20_ForeignCacheIsEmptyCache ==
    /\ ~(bpc = "raised" /\ out.raised = "TypeError")
    /\ (bpc \in {"extract", "save", "return"} /\ DOMAIN disk # {"dict"}) => hits = {}

(***************************************************************************)
(* Claims about main() (Spec).                                             *)
(***************************************************************************)
AuthorTag(p) == parse_qsigla(p)[2]

Eligible(p) == ~HasError(feats[p]) /\ ~IsTooShort(feats[p])

FilesOfQuestion(q) == {p \in Range(paths) : QuestionOf(p) = q}

\* C2: within a question group no PairScore is computed for two files with
\* the same AuthorTag, and no such file becomes the best peer of the other.
C2_NoPairOfSameAuthorTag ==
    /\ \A i \in DOMAIN pairs : AuthorTag(pairs[i][1]) # AuthorTag(pairs[i][2])
    /\ \A p \in DOMAIN best : best[p][1] # None => AuthorTag(best[p][1]) # AuthorTag(p)

\* C3: every computed pair joins two distinct files of the question being
\* processed, each unordered pair once, both files without too_short and
\* without error; a best peer is never such a file nor assigned to one, and
\* the baseline of a question is that of the scores of these pairs.
C3_PairsWithinQuestionAndEligible ==
    /\ \A i \in DOMAIN pairs :
          /\ pairs[i][1] # pairs[i][2]
          /\ QuestionOf(pairs[i][1]) = QuestionOf(pairs[i][2])
          /\ pc \in {"best", "rows"} => QuestionOf(pairs[i][1]) = qnum
          /\ Eligible(pairs[i][1]) /\ Eligible(pairs[i][2])
          /\ \A j \in DOMAIN pairs :
                {pairs[i][1], pairs[i][2]} = {pairs[j][1], pairs[j][2]} => i = j
    /\ \A p \in DOMAIN best :
          best[p][1] # None =>
              /\ Eligible(p) /\ Eligible(best[p][1])
              /\ QuestionOf(best[p][1]) = QuestionOf(p)
    /\ pc \in {"best", "rows"} => mean_sd_by_q[qnum] = baseline_stats(ScoresOf(pairs))

C3_Witness ==
    /\ pc = "rows"
    /\ Len(pairs) >= 1
    /\ \E p \in Range(groups[qnum]) : ~Eligible(p) /\ best[p][1] = None
    /\ \E p \in Range(paths) : IsTooShort(feats[p])
    /\ \E p \in Range(paths) : HasError(feats[p])

\* The indices of the pairs of the list prs that touch file p, those that
\* carry the greatest score among them, and the peer of p in a pair
Touching(prs, p) == {i \in DOMAIN prs : p \in {prs[i][1], prs[i][2]}}
MaxScoring(prs, p) ==
    {i \in Touching(prs, p) : \A j \in Touching(prs, p) : FGe(prs[i][3], prs[j][3])}
FirstOf(S) == CHOOSE i \in S : \A j \in S : i <= j
PeerIn(pr, p) == IF pr[1] = p THEN pr[2] ELSE pr[1]

\* C4: for every file of a retained group with at least one valid pair, the
\* row's score is the maximum composite over the valid pairs touching it and
\* its best peer is the peer of the first pair attaining that maximum.
C4_RowIsFirstMaximum ==
    \A q \in DOMAIN rows_by_q :
        LET prs == PairsOf(groups[q], feats, args.weights)
        IN \A i \in DOMAIN groups[q] :
              LET p == groups[q][i]
                  row == rows_by_q[q][i]
                  top == MaxScoring(prs, p)
                  first == prs[FirstOf(top)]
              IN Touching(prs, p) # {} =>
                    /\ top # {}
                    /\ row.score = first[3]
                    /\ row.br = first[4]
                    /\ row.best_with = Basename(PeerIn(first, p))

C4_Witness ==
    /\ pc = "done"
    /\ \E q \in DOMAIN rows_by_q :
          LET prs == PairsOf(groups[q], feats, args.weights)
          IN /\ \E p \in Range(groups[q]) : Cardinality(MaxScoring(prs, p)) >= 2
             /\ \E p \in Range(groups[q]) : Touching(prs, p) # MaxScoring(prs, p)

\* the orderings of a list of distinct elements
RECURSIVE OrderingsOf(_)
OrderingsOf(S) ==
    IF S = {} THEN {<<>>}
    ELSE UNION {{<<x>> \o t : t \in OrderingsOf(S \ {x})} : x \in S}

Orderings(list) == OrderingsOf(Range(list))

\* C5: for every order in which the walk of gather_files may find the same
\* files, main() retains the same questions and produces the same rows per
\* question, in the same order, also when two files of a question have
\* AuthorTags equal up to letter case and when several peers tie for the best
\* score.
C5_RowsIndependentOfInputOrder ==
    pc = "done" /\ Len(paths) >= 2 =>
        /\ DOMAIN GroupsOf(paths) = DOMAIN rows_by_q
        /\ \A q \in DOMAIN rows_by_q : QuestionRows(paths, feats, args, q) = rows_by_q[q]
        /\ \A walk \in Orderings(paths) :
              LET gathered == SortPaths(walk)
              IN \/ gathered = paths
                 \/ /\ DOMAIN GroupsOf(gathered) = DOMAIN rows_by_q
                    /\ \A q \in DOMAIN rows_by_q :
                          QuestionRows(gathered, feats, args, q) = rows_by_q[q]

C5_Witness ==
    /\ pc = "done"
    /\ \E q \in DOMAIN rows_by_q :
          LET prs == PairsOf(groups[q], feats, args.weights)
          IN /\ \E i, j \in DOMAIN groups[q] :
                   /\ AuthorTag(groups[q][i]) # AuthorTag(groups[q][j])
                   /\ file_sigla_key(groups[q][i]) = file_sigla_key(groups[q][j])
                   /\ Eligible(groups[q][i]) /\ Eligible(groups[q][j])
             /\ \E x \in Range(groups[q]) : Cardinality(MaxScoring(prs, x)) >= 2

InNoValidPair(q, p) ==
    \/ ~Eligible(p)
    \/ \A o \in FilesOfQuestion(q) \ {p} : ~Eligible(o)

\* C6 as stated: a file of a retained group in no valid pair gets best peer
\* "-", score 0, an all-zero breakdown and status OK, for every policy and
\* every threshold.
C6_NoPairRowIsOkForEveryThreshold ==
    \A q \in DOMAIN rows_by_q : \A i \in DOMAIN groups[q] :
        InNoValidPair(q, groups[q][i]) =>
            /\ rows_by_q[q][i].best_with = Dash
            /\ rows_by_q[q][i].score = Zero
            /\ rows_by_q[q][i].br = ZeroBreakdown
            /\ rows_by_q[q][i].status = "OK"

\* C6 amended: the same row, with status OK for every policy and every
\* threshold greater than 0.
C6_NoPairRowIsOkForPositiveThreshold ==
    \A q \in DOMAIN rows_by_q : \A i \in DOMAIN groups[q] :
        InNoValidPair(q, groups[q][i]) =>
            /\ rows_by_q[q][i].file = Basename(groups[q][i])
            /\ rows_by_q[q][i].best_with = Dash
            /\ rows_by_q[q][i].score = Zero
            /\ rows_by_q[q][i].br = ZeroBreakdown
            /\ FGt(args.th, Zero) => rows_by_q[q][i].status = "OK"

C6_Witness ==
    /\ pc = "done"
    /\ FGt(args.th, Zero)
    /\ \E q \in DOMAIN rows_by_q : \E i, j \in DOMAIN groups[q] :
          /\ InNoValidPair(q, groups[q][i]) /\ rows_by_q[q][i].status = "OK"
          /\ ~InNoValidPair(q, groups[q][j])

EligibleFilesOfQuestion(q) == {p \in FilesOfQuestion(q) : Eligible(p)}

Components == {"jaccard", "control", "idents", "loops", "calls"}

\* C8: status_from_policy is the specified classifier: weighted gives
\* SUSPEITO iff score >= th, REVISAR iff 0.85*th <= score < th, else OK; any
\* gives SUSPEITO iff some component >= th, all iff every component >= th,
\* else OK; REVISAR is never returned under any or all.
C8_StatusIsSpecifiedClassifier ==
    kop = "status_from_policy" =>
        LET atLeast(x, y) == x[1] * y[2] >= y[1] * x[2]
            reviewBar == <<17 * kin.th[1], 20 * kin.th[2]>>
            some == \E m \in Components : atLeast(kin.br[m], kin.th)
            every == \A m \in Components : atLeast(kin.br[m], kin.th)
        IN /\ kout \in {"SUSPEITO", "REVISAR", "OK"}
           /\ kin.policy = "weighted" =>
                 /\ kout = "SUSPEITO" <=> atLeast(kin.score, kin.th)
                 /\ kout = "REVISAR" <=>
                        (atLeast(kin.score, reviewBar) /\ ~atLeast(kin.score, kin.th))
           /\ kin.policy = "any" => (kout = "SUSPEITO" <=> some) /\ kout # "REVISAR"
           /\ kin.policy = "all" => (kout = "SUSPEITO" <=> every) /\ kout # "REVISAR"

C8_Witness ==
    /\ kop = "status_from_policy" /\ kin.policy = "weighted"
    /\ kin.score = kin.th /\ kin.th = DEFAULT_TH /\ kout = "SUSPEITO"

InUnitInterval(x) == x[2] > 0 /\ 0 <= x[1] /\ x[1] <= x[2]

WeightedSum(w, br) ==
    LET num(m) == w[m][1] * br[m][1]
        den(m) == w[m][2] * br[m][2]
        add(x, y) == <<x[1] * y[2] + y[1] * x[2], x[2] * y[2]>>
        term(m) == <<num(m), den(m)>>
    IN add(term("jaccard"), add(term("control"), add(term("idents"),
           add(term("loops"), term("calls")))))

SameRational(x, y) == x[1] * y[2] = y[1] * x[2]

WeightTotal(w) ==
    LET add(x, y) == <<x[1] * y[2] + y[1] * x[2], x[2] * y[2]>>
    IN add(w.jaccard, add(w.control, add(w.idents, add(w.loops, w.calls))))

\* C9 as stated: five components in [0,1] and a composite, the weighted sum
\* with the weights as configured, that is also in [0,1].
C9_CompositeInUnitInterval ==
    kop = "compare_pair" =>
        /\ \A m \in Components : InUnitInterval(kout[2][m])
        /\ SameRational(kout[1], WeightedSum(kin.weights, kout[2]))
        /\ InUnitInterval(kout[1])

\* C9 amended: five components in [0,1] and a composite equal to the
\* weighted sum with the weights as configured, between 0 and the sum of the
\* five weights.
C9_CompositeBoundedByWeightTotal ==
    kop = "compare_pair" =>
        /\ DOMAIN kout[2] = Components
        /\ \A m \in Components : InUnitInterval(kout[2][m])
        /\ SameRational(kout[1], WeightedSum(kin.weights, kout[2]))
        /\ FGe(kout[1], Zero)
        /\ FGe(WeightTotal(kin.weights), kout[1])

C9_Witness ==
    /\ kop = "compare_pair"
    /\ kin.weights = HeavyWeights
    /\ FGt(kout[1], One)

\* C10: 0 <= jaccard(A,B) <= 1, jaccard(A,A) = 1 (also for the empty set),
\* jaccard(A,B) = jaccard(B,A), and jaccard(A,{}) = 0 for non-empty A.
C10_JaccardLaws ==
    kop = "jaccard" =>
        /\ InUnitInterval(kout)
        /\ kin.a = kin.b => kout = One
        /\ kout = jaccard(kin.b, kin.a)
        /\ (kin.a # {} /\ kin.b = {}) => kout = Zero

C10_Witness == kop = "jaccard" /\ kin.a = {} /\ kin.b = {} /\ kout = One

\* C11: 0 <= sim_edit(x,y) <= 1, sim_edit(x,x) = 1 and
\* sim_edit(x,y) = sim_edit(y,x), for all sequences x and y of control words.
C11_SimEditLaws ==
    kop = "sim_edit" =>
        /\ InUnitInterval(kout)
        /\ kin.a = kin.b => kout = One
        /\ kout = sim_edit(kin.b, kin.a)

C11_Witness ==
    /\ kop = "sim_edit"
    /\ Len(kin.a) = 1 /\ Len(kin.b) = MaxSeqLen
    /\ FGt(kout, Zero) /\ FGt(One, kout)

\* C12: in every script, cosine returns 1 when both bags are empty and 0
\* when exactly one bag is empty.
C12_CosineOfEmptyBags ==
    kop = "cosine" =>
        /\ (kin.ca = {} /\ kin.cb = {}) => kout = One
        /\ ((kin.ca = {}) # (kin.cb = {})) => kout = Zero

\* C13: for a question with no valid pair or with a population standard
\* deviation of 0 of its pair scores, the run completes and every row's
\* z-score is None ("-"); otherwise the z-score of a row with a best peer is
\* (score - mean)/stddev.
C13_ZScoreIsDashOrStandardised ==
    kop = "final_question" =>
        LET prs == FinalPairLoop(Combinations(kin.plist, 1, 2), 1, kin.fts, <<>>)
            jvals == [i \in DOMAIN prs |-> prs[i][3]]
        IN /\ ~Raised(kout)
           /\ \A i \in DOMAIN kout.rows :
                 LET row == kout.rows[i]
                 IN IF Len(jvals) < 2 \/ pvariance(jvals) = Zero \/ IsNone(row.jaccard)
                    THEN IsNone(row.zscore)
                    ELSE /\ ~IsNone(row.zscore)
                         /\ row.zscore =
                               [difference |-> FAdd(row.jaccard, FMul(MinusOne, fmean(jvals))),
                                over |-> [sqrt_of |-> pvariance(jvals)]]

\* C14: baseline_stats returns (None, None) for fewer than 2 scores, and
\* otherwise a pair of two numbers, the arithmetic mean and the population
\* standard deviation of the scores, also when all scores are equal and the
\* deviation is 0.
C14_BaselineIsPairOfNumbers ==
    kop = "baseline_stats" =>
        IF Len(kin.values) < 2
        THEN kout = <<None, None>>
        ELSE /\ Len(kout) = 2
             /\ kout[1] = fmean(kin.values)
             /\ IsFloat(kout[2])
             /\ IF pvariance(kin.values) = Zero
                THEN DOMAIN kout[2] = 1..2 /\ kout[2] = Zero
                ELSE DOMAIN kout[2] = {"sqrt_of"} /\ kout[2].sqrt_of = pvariance(kin.values)

\* C15: renaming the non-keyword identifiers of a source injectively to
\* fresh non-keyword names leaves the normalized token sequence, the shingle
\* set and the token-frequency bag unchanged (shingle Jaccard 1), while the
\* identifier set and the call set are the images of the old ones.
C15_NormalizationIgnoresNames ==
    kop = "normalize_identifiers" =>
        /\ kout.renamed.tok_norm = kout.source.tok_norm
        /\ kout.renamed.shingles = kout.source.shingles
        /\ kout.renamed.tf = kout.source.tf
        /\ jaccard(kout.source.shingles, kout.renamed.shingles) = One
        /\ kout.renamed.idents = {kin.renaming[n] : n \in kout.source.idents}
        /\ kout.renamed.calls = {kin.renaming[n] : n \in kout.source.calls}

C15_Witness ==
    /\ kop = "normalize_identifiers"
    /\ Cardinality(kout.source.idents) >= 2
    /\ "ID1" \in kout.source.idents
    /\ kout.source.calls # {}
    /\ kout.source.shingles # {}
    /\ kout.renamed.idents # kout.source.idents

(***************************************************************************)
(* The lexical structure of a C source text, as the claims about masking   *)
(* read it: for every position whether it lies outside string literals,    *)
(* character literals and comments, and the state the text ends in.  A     *)
(* line comment ends before its newline; a backslash inside a literal      *)
(* takes the next character with it.                                       *)
(***************************************************************************)
Lexed(text) ==
    LET RECURSIVE Lex(_, _, _, _)
        Lex(code, i, st, acc) ==
            IF i > Len(code) THEN [outside |-> acc, end |-> st]
            ELSE LET c == code[i]
                     c1 == IF i + 1 <= Len(code) THEN code[i + 1] ELSE ""
                 IN CASE st = "code" ->
                         IF c \in {"\"", "'"} THEN Lex(code, i + 1, c, Append(acc, FALSE))
                         ELSE IF c = "/" /\ c1 = "*"
                              THEN Lex(code, i + 2, "block", acc \o <<FALSE, FALSE>>)
                         ELSE IF c = "/" /\ c1 = "/"
                              THEN Lex(code, i + 2, "line", acc \o <<FALSE, FALSE>>)
                         ELSE Lex(code, i + 1, "code", Append(acc, TRUE))
                      [] st = "block" ->
                         IF c = "*" /\ c1 = "/"
                         THEN Lex(code, i + 2, "code", acc \o <<FALSE, FALSE>>)
                         ELSE Lex(code, i + 1, "block", Append(acc, FALSE))
                      [] st = "line" ->
                         IF c = "\n" THEN Lex(code, i + 1, "code", Append(acc, TRUE))
                         ELSE Lex(code, i + 1, "line", Append(acc, FALSE))
                      [] OTHER ->
                         IF c = "\\" /\ i + 1 <= Len(code)
                         THEN Lex(code, i + 2, st, acc \o <<FALSE, FALSE>>)
                         ELSE IF c = st THEN Lex(code, i + 1, "code", Append(acc, FALSE))
                         ELSE Lex(code, i + 1, st, Append(acc, FALSE))
    IN Lex(text, 1, "code", <<>>)

\* every literal and block comment of the text is closed
Terminated(text) == Lexed(text).end \in {"code", "line"}

\* C16: strip_comments_and_strings returns a text of the same length in
\* which every character outside string literals, character literals and
\* comments sits at its original offset.  Violated: a line comment is
\* replaced by the empty string, so the text gets shorter.
C16_MaskKeepsLayout ==
    (kop = "strip_comments_and_strings" /\ Terminated(kin.code)) =>
        /\ Len(kout.clean) = Len(kin.code)
        /\ \A i \in 1..Len(kin.code) :
               Lexed(kin.code).outside[i] => kout.clean[i] = kin.code[i]

\* C17: masking followed by tokenization yields, in source order, exactly
\* the tokens of the code outside comments and literals.  Violated: the
\* literals are masked before the comments, so two apostrophes inside
\* comments mask the code between them.
C17_TokensAreTheCodeTokens ==
    (kop = "strip_comments_and_strings" /\ Terminated(kin.code)) =>
        kout.tok_raw =
            tokenize([i \in 1..Len(kin.code) |->
                         IF Lexed(kin.code).outside[i] THEN kin.code[i] ELSE " "])

\* C19: an invalid configuration (a negative weight, an unknown policy, a
\* shingle width below 1) stops the program at startup, before any file is
\* read.  Violated: only the policy is tested, by argparse.
C19_InvalidConfigurationIsFatal ==
    (/\ kop = "parse_args"
     /\ \/ FGt(Zero, kin.w_j)
        \/ kin.policy \notin Policies
        \/ kin.k < 1) => kout.pc = "exit"

\* the classical edit distance with unit costs for insertion, deletion and
\* substitution, by its recursive definition
RECURSIVE EditDistance(_, _)
EditDistance(a, b) ==
    IF a = <<>> THEN Len(b)
    ELSE IF b = <<>> THEN Len(a)
    ELSE Min(Min(EditDistance(Tail(a), b) + 1, EditDistance(a, Tail(b)) + 1),
             EditDistance(Tail(a), Tail(b)) + (IF Head(a) = Head(b) THEN 0 ELSE 1))

\* C22: levenshtein, the single-row dynamic program, equals the classical
\* edit distance, and sim_edit is 1 for two empty sequences and otherwise
\* 1 - levenshtein / max(|a|, |b|).
C22_LevenshteinIsEditDistance ==
    kop = "sim_edit" =>
        /\ levenshtein(kin.a, kin.b) = EditDistance(kin.a, kin.b)
        /\ kout = IF kin.a = <<>> /\ kin.b = <<>> THEN One
                  ELSE LET mx == Max(Len(kin.a), Len(kin.b))
                       IN Frac(mx - EditDistance(kin.a, kin.b), mx)

\* C22 witness: sequences of different lengths whose distance needs a
\* substitution and a deletion
C22_Witness ==
    /\ kop = "sim_edit"
    /\ Len(kin.a) = 3 /\ Len(kin.b) = 2
    /\ kin.a[1] # kin.b[1] /\ kin.a[2] = kin.b[2]
    /\ levenshtein(kin.a, kin.b) = 2
    /\ kout = Frac(1, 3)

\* C23: control_stream emits a tag only for the eleven keywords spelt
\* exactly so, for the braces and for ';'; a list without any of them,
\* such as one of identifiers IF or While, gives the empty stream; and the
\* returned stream never has two equal adjacent elements.  Violated: the
\* token is lower-cased before the lookup.
C23_OnlyExactKeywordsEmit ==
    kop = "control_stream" =>
        /\ (\A i \in DOMAIN kin.tokens :
                kin.tokens[i].txt \notin DOMAIN map_ctrl \cup {"{", "}", ";"}) => kout = <<>>
        /\ \A i \in 1..(Len(kout) - 1) : kout[i] # kout[i + 1]

\* C24 as stated: the sample source gives the stream with two closing braces
C24_SampleStreamHasBothClosingBraces ==
    (kop = "control_stream" /\ kin.tokens = IfForTokens) =>
        kout = <<"IF", "BRACE{", "FOR", "SEMI", "BRACE{", "BRACE}", "BRACE}">>

\* C24: the source if(a){for(i=0;i<n;i++){}} produces the compressed
\* control stream [IF, BRACE{, FOR, SEMI, BRACE{, BRACE}]: the two ';' of
\* the header and the two closing braces are each collapsed into one.
C24_SampleStreamIsCollapsed ==
    (kop = "control_stream" /\ kin.tokens = IfForTokens) =>
        kout = <<"IF", "BRACE{", "FOR", "SEMI", "BRACE{", "BRACE}">>

C24_Witness ==
    /\ kop = "control_stream" /\ kin.tokens = IfForTokens
    /\ Len(kout) = 6 /\ kout[6] = "BRACE}"

\* C25 as stated: the header for (int i = 0; i < n; i++) gives the
\* signature FOR[ASSIGN_OR_DECL;ID<NUM;INCDEC]
C25_SampleHeaderIsIdLessNum ==
    (/\ kop = "extract_loop_signatures" /\ kin.form = "full"
     /\ kin.init = <<"i", "n", "t", " ", "i", " ", "=", " ", "0">>
     /\ kin.cond = <<" ", "i", " ", "<", " ", "n">>
     /\ kin.incr = <<" ", "i", "+", "+">>) =>
        kout.sigs = {<<"FOR", "ASSIGN_OR_DECL", "ID<NUM", "INCDEC">>}

\* C25: the header for (int i = 0; i < n; i++), whose condition compares
\* two identifiers, gives the one signature FOR[ASSIGN_OR_DECL;COND;INCDEC]:
\* the condition becomes ID<ID, which none of the substring tests matches.
C25_SampleHeaderIsCond ==
    (/\ kop = "extract_loop_signatures" /\ kin.form = "full"
     /\ kin.init = <<"i", "n", "t", " ", "i", " ", "=", " ", "0">>
     /\ kin.cond = <<" ", "i", " ", "<", " ", "n">>
     /\ kin.incr = <<" ", "i", "+", "+">>) =>
        /\ CondShape(kin.cond) = <<"I", "D", "<", "I", "D">>
        /\ kout.sigs = {<<"FOR", "ASSIGN_OR_DECL", "COND", "INCDEC">>}

C25_Witness ==
    /\ kop = "extract_loop_signatures"
    /\ kin.code = <<"f", "o", "r", " ", "(", "i", "n", "t", " ", "i", " ", "=", " ", "0", ";",
                    " ", "i", " ", "<", " ", "n", ";", " ", "i", "+", "+", ")">>
    /\ Len(kout.steps) = 1 /\ kout.steps[1].close = Len(kin.code)
    /\ \E sig \in kout.sigs : sig[3] = "COND"

\* C26: for every for-loop header the condition part is classified NONE
\* when it is empty (for(;;), or a header with fewer than two ';'), and
\* otherwise, with identifiers replaced by ID and numbers by NUM, ID<NUM,
\* ID>NUM, EQ or COND by the substring tests in this order.  Violated: the
\* code has no test for the empty condition and classifies it COND.
C26_ConditionClassifiedInOrder ==
    (kop = "extract_loop_signatures" /\ kin.form \in {"full", "short"}) =>
        LET sh == CondShape(kin.cond)
            expected ==
                IF sh = <<>> THEN "NONE"
                ELSE IF Contains(sh, <<"I", "D", "<", "N", "U", "M">>)
                        \/ Contains(sh, <<"I", "D", "<", "=", "N", "U", "M">>) THEN "ID<NUM"
                ELSE IF Contains(sh, <<"I", "D", ">", "N", "U", "M">>)
                        \/ Contains(sh, <<"I", "D", ">", "=", "N", "U", "M">>) THEN "ID>NUM"
                ELSE IF Contains(sh, <<"I", "D", "=", "=", "I", "D">>)
                        \/ Contains(sh, <<"I", "D", "=", "=", "N", "U", "M">>) THEN "EQ"
                ELSE "COND"
        IN /\ kout.sigs # {}
           /\ \A sig \in kout.sigs : sig[1] = "FOR" /\ sig[3] = expected

\* C29: extract_loop_signatures returns on every text, also on for/while
\* words not followed by '(' and on headers whose parentheses never close:
\* every iteration starts behind the start of the one before, behind its
\* keyword, and behind the closing parenthesis of a header it matched, so
\* there are at most as many iterations as the text has characters.
C29_ScanIndexStrictlyIncreases ==
    kop = "extract_loop_signatures" =>
        LET st == kout.steps
        IN /\ Len(st) <= Len(kin.code)
           /\ \A t \in DOMAIN st :
                 /\ 1 <= st[t].start /\ st[t].start < st[t].kw_end
                 /\ st[t].kw_end <= Len(kin.code) + 1
                 /\ st[t].close # 0 =>
                       /\ st[t].kw_end <= st[t].close /\ st[t].close <= Len(kin.code)
                       /\ kin.code[st[t].close] = ")"
                 /\ t < Len(st) =>
                       /\ st[t + 1].start > st[t].start
                       /\ st[t + 1].start >= st[t].kw_end
                       /\ st[t + 1].start > st[t].close

\* C29 witness: a text with a keyword that has no header before a header
\* that is matched, and a text whose parenthesis never closes
C29_Witness ==
    /\ kop = "extract_loop_signatures" /\ kin.form = "pieces"
    /\ Len(kout.steps) = 2
    /\ kout.steps[1].close = 0
    /\ kin.code[kout.steps[1].kw_end] = "("
    /\ kout.steps[2].close # 0
    /\ kout.sigs # {}

\* C30: when both files of a pair have no loop signature the loops
\* component compare_pair returns is 1.0, when both have no call the calls
\* component is 1.0, and status_from_policy, given the score and the
\* breakdown of such a pair as main gives it those of a row's best pair,
\* returns SUSPEITO under policy any for every th <= 1, whatever the other
\* components are.
C30_EmptySetsFlagThePair ==
    kop = "compare_pair" =>
        LET no_loops == kin.fa.loopsigs = {} /\ kin.fb.loopsigs = {}
            no_calls == kin.fa.calls = {} /\ kin.fb.calls = {}
        IN /\ no_loops => kout[2].loops = One
           /\ no_calls => kout[2].calls = One
           /\ (no_loops \/ no_calls) =>
                 \A th \in {MinusOne, Zero, <<1, 2>>, DEFAULT_TH, One} :
                     status_from_policy(kout[1], kout[2], th, "any") = "SUSPEITO"

\* C30 witness: a pair of files without loop signatures whose score and
\* whose other four components are below th 0.70, flagged by the loops
\* component alone
C30_Witness ==
    /\ kop = "compare_pair"
    /\ kin.fa.loopsigs = {} /\ kin.fb.loopsigs = {}
    /\ kout[2].loops = One
    /\ ~FGe(kout[2].jaccard, DEFAULT_TH) /\ ~FGe(kout[2].control, DEFAULT_TH)
    /\ ~FGe(kout[2].idents, DEFAULT_TH) /\ ~FGe(kout[2].calls, DEFAULT_TH)
    /\ ~FGe(kout[1], DEFAULT_TH)
    /\ status_from_policy(kout[1], kout[2], DEFAULT_TH, "any") = "SUSPEITO"
    /\ status_from_policy(kout[1], kout[2], DEFAULT_TH, "weighted") = "OK"

====
